---------------------------- MODULE Spec2Model ----------------------------
(***************************************************************************)
(* GSV update semantics for Quantified Modal Logic (r-caso/GSV).           *)
(*                                                                         *)
(* The model follows the C++ sources: referent systems and possibilities   *)
(* (gsv-core), information states (std::set<Possibility> ordered by        *)
(* operator<, i.e. by world only), the Evaluator visitor, and the semantic *)
(* relations built on it.  A client holds a model and an information       *)
(* state and calls create / update / evaluate and the relations.           *)
(***************************************************************************)
EXTENDS Integers, Sequences, FiniteSets, TLC

(***************************************************************************)
(* Bounds of the verification                                              *)
(***************************************************************************)
NumWorlds == 2

NumIndividuals == 2

MaxSteps == 2

Worlds == 0 .. (NumWorlds - 1)

Individuals == 0 .. (NumIndividuals - 1)

(***************************************************************************)
(* Partial maps (std::unordered_map) as functions on a finite domain       *)
(***************************************************************************)
EmptyMap == [k \in {} |-> 0]

MapPut(m, k, v) == [j \in (DOMAIN m) \cup {k} |-> IF j = k THEN v ELSE m[j]]

MapMerge(m, n) == [j \in (DOMAIN m) \cup (DOMAIN n) |-> IF j \in DOMAIN n THEN n[j] ELSE m[j]]

(***************************************************************************)
(* Expression AST (QMLExpression): terms and the five node kinds           *)
(***************************************************************************)
Var(x) == [type |-> "VARIABLE", literal |-> x]

Const(c) == [type |-> "CONSTANT", literal |-> c]

Unary(op, scope) == [kind |-> "unary", op |-> op, scope |-> scope]

Binary(op, lhs, rhs) == [kind |-> "binary", op |-> op, lhs |-> lhs, rhs |-> rhs]

Quant(q, v, scope) == [kind |-> "quant", quantifier |-> q, variable |-> v, scope |-> scope]

Ident(lhs, rhs) == [kind |-> "ident", lhs |-> lhs, rhs |-> rhs]

Pred(name, args) == [kind |-> "pred", predicate |-> name, arguments |-> args]

negate(expr) == Unary("NEGATION", expr)

(***************************************************************************)
(* ReferentSystem and Possibility                                          *)
(***************************************************************************)
NewReferentSystem == [pegs |-> 0, variablePegAssociation |-> EmptyMap]

NewPossibility(r_system, world) == [referentSystem |-> r_system, assignment |-> EmptyMap, world |-> world]

\* std::expected results: ok with a value, or an error message.  A message
\* is the stack of formulas named by "In evaluating formula ..." lines,
\* outermost first, followed by the innermost cause.
NoError == [trace |-> <<>>, cause |-> "", what |-> ""]

Message(cause, what) == [trace |-> <<>>, cause |-> cause, what |-> what]

Ok(v) == [ok |-> TRUE, val |-> v, err |-> NoError]

Err(msg) == [ok |-> FALSE, val |-> 0, err |-> msg]

\* an unexpected where a state was expected
Unexpected(msg) == [ok |-> FALSE, val |-> {}, err |-> msg]

\* a variant of explain_failure that puts the enclosing formula after the
\* cause: the message reads from the innermost formula outwards
explain_failureInnermostFirst(formula, cause) ==
    [trace |-> cause.trace \o <<formula>>, cause |-> cause.cause, what |-> cause.what]

explain_failure(formula, cause) ==
    [trace |-> <<formula>> \o cause.trace, cause |-> cause.cause, what |-> cause.what]

value(r, variable) ==
    IF variable \notin DOMAIN r.variablePegAssociation
    THEN Err(Message("Referent system does not contain variable", variable))
    ELSE Ok(r.variablePegAssociation[variable])

\* assignment.at(peg) throws std::out_of_range when the peg is not mapped
variableDenotation(variable, p) ==
    LET peg == value(p.referentSystem, variable)
    IN  IF ~peg.ok THEN peg
        ELSE IF peg.val \notin DOMAIN p.assignment
             THEN Err(Message("out_of_range", variable))
             ELSE Ok(p.assignment[peg.val])

\* a variant of Possibility::update that gives a variable the referent
\* system already binds its old peg back and overwrites the individual there
PossibilityUpdateReusesPeg(r, assignment, variable, individual) ==
    IF variable \in DOMAIN r.variablePegAssociation
    THEN [r |-> r,
          assignment |-> MapPut(assignment, r.variablePegAssociation[variable], individual)]
    ELSE [r |-> [pegs |-> r.pegs + 1,
                 variablePegAssociation |->
                     MapPut(r.variablePegAssociation, variable, r.pegs + 1)],
          assignment |-> MapPut(assignment, r.pegs + 1, individual)]

\* Possibility::update on a possibility whose referent system is r:
\* returns the mutated referent system and the mutated assignment
PossibilityUpdate(r, assignment, variable, individual) ==
    LET newpegs == r.pegs + 1
    IN  [r |-> [pegs |-> newpegs,
                variablePegAssociation |-> MapPut(r.variablePegAssociation, variable, newpegs)],
         assignment |-> MapPut(assignment, newpegs, individual)]

\* extends(p2, p1): the loop runs over the pegs of p2
extends(p2, p1) ==
    /\ p1.world = p2.world
    /\ \A peg \in DOMAIN p2.assignment :
          \/ peg \notin DOMAIN p1.assignment
          \/ p1.assignment[peg] = p2.assignment[peg]

\* operator<(p1, p2) compares worlds only
Less(p1, p2) == p1.world < p2.world

\* equivalence induced by the ordering: neither is less than the other
Equiv(p1, p2) == ~Less(p1, p2) /\ ~Less(p2, p1)

(***************************************************************************)
(* InformationState = std::set<Possibility>                                *)
(***************************************************************************)
contains(s, p) == \E q \in s : Equiv(q, p)

\* a variant of insert for a set that compares possibilities by their whole
\* content: a possibility with a new assignment is a new element
insertByContent(s, p) == s \cup {p}

\* std::set::insert keeps the element already present
insert(s, p) == IF contains(s, p) THEN s ELSE s \cup {p}

\* the element the iterator visits at a given world, iteration is ascending
At(s, w) == CHOOSE p \in s : p.world = w

WorldsOf(s) == {p.world : p \in s}

\* create(model): one possibility per world, one shared empty referent system
create(m) == {NewPossibility(NewReferentSystem, i) : i \in 0 .. (m.worldCardinality - 1)}

\* The loop of update(): r_star is one object shared by every p_star, so
\* each iteration overwrites its peg count, adds the bindings of p's
\* referent system and then applies Possibility::update through p_star.
RECURSIVE UpdateLoop(_, _, _, _, _, _)
\* a variant of the loop whose p_star takes the assignment of the first
\* possibility of the input state instead of the assignment of p
UpdateLoopCopiesFirstAssignment(input_state, w, r_star, out, variable, individual) ==
    IF w >= NumWorlds THEN [r |-> r_star, out |-> out]
    ELSE IF w \notin WorldsOf(input_state)
         THEN UpdateLoop(input_state, w + 1, r_star, out, variable, individual)
         ELSE LET p == At(input_state, w)
                  first == CHOOSE q \in input_state : \A o \in input_state : ~Less(o, q)
                  r1 == [pegs |-> p.referentSystem.pegs,
                         variablePegAssociation |->
                             MapMerge(r_star.variablePegAssociation,
                                      p.referentSystem.variablePegAssociation)]
                  u == PossibilityUpdate(r1, first.assignment, variable, individual)
              IN  UpdateLoop(input_state, w + 1, u.r,
                             out \cup {[assignment |-> u.assignment, world |-> p.world]},
                             variable, individual)

UpdateLoop(input_state, w, r_star, out, variable, individual) ==
    IF w >= NumWorlds THEN [r |-> r_star, out |-> out]
    ELSE IF w \notin WorldsOf(input_state)
         THEN UpdateLoop(input_state, w + 1, r_star, out, variable, individual)
         ELSE LET p == At(input_state, w)
                  r1 == [pegs |-> p.referentSystem.pegs,
                         variablePegAssociation |->
                             MapMerge(r_star.variablePegAssociation,
                                      p.referentSystem.variablePegAssociation)]
                  u == PossibilityUpdate(r1, p.assignment, variable, individual)
              IN  UpdateLoop(input_state, w + 1, u.r,
                             out \cup {[assignment |-> u.assignment, world |-> p.world]},
                             variable, individual)

\* a variant of update() without p_star.assignment = p.assignment: every
\* p_star starts from the empty assignment and maps the new peg only
updateDropsAssignment(input_state, variable, individual) ==
    LET done == UpdateLoop(input_state, 0, NewReferentSystem, {}, variable, individual)
    IN  {[referentSystem |-> done.r,
          assignment |-> [peg \in {done.r.pegs} |-> individual],
          world |-> q.world] : q \in done.out}

\* every output possibility points at r_star as it is when the loop ends
update(input_state, variable, individual) ==
    LET done == UpdateLoop(input_state, 0, NewReferentSystem, {}, variable, individual)
    IN  {[referentSystem |-> done.r, assignment |-> q.assignment, world |-> q.world] :
            q \in done.out}

extendsState(s2, s1) == \A p2 \in s2 : \E p1 \in s1 : extends(p2, p1)

isDescendantOf(p2, p1, s) == contains(s, p2) /\ extends(p2, p1)

subsistsIn(p, s) == \E p1 \in s : isDescendantOf(p1, p, s)

subsistsInState(s1, s2) == \A p \in s1 : subsistsIn(p, s2)

(***************************************************************************)
(* IModel: cardinalities and interpretations, undefined as an error        *)
(***************************************************************************)
termInterpretation(m, term, world) ==
    IF term \in DOMAIN m.terms THEN Ok(m.terms[term][world])
    ELSE Err(Message("Term not interpreted", term))

predicateInterpretation(m, predicate, world) ==
    IF predicate \in DOMAIN m.predicates THEN Ok(m.predicates[predicate][world])
    ELSE [ok |-> FALSE, val |-> {}, err |-> Message("Predicate not interpreted", predicate)]

(***************************************************************************)
(* Evaluator                                                               *)
(***************************************************************************)
Min(S) == CHOOSE x \in S : \A y \in S : x <= y

\* a variant of filter that treats a throwing predicate as a false one: the
\* possibility is erased and the loop goes on
filterErasesOnThrow(state, outcomes) ==
    Ok({p \in state : outcomes[p].ok /\ outcomes[p].val})

\* filter(state, predicate) where predicate may throw: outcomes[p] is the
\* outcome of the predicate at p.  Iteration is in ascending world order and
\* the first throw leaves the loop; the handlers turn it into an unexpected.
filter(state, outcomes) ==
    LET throwing == {w \in WorldsOf(state) : ~outcomes[At(state, w)].ok}
    IN  IF throwing # {}
        THEN Unexpected(outcomes[At(state, Min(throwing))].err)
        ELSE Ok({p \in state : outcomes[p].val})

\* denotation of a term at a possibility
termDenotation(m, term, p) ==
    IF term.type = "VARIABLE" THEN variableDenotation(term.literal, p)
    ELSE termInterpretation(m, term.literal, p.world)

\* the lambda of the IdentityNode handler
assigns_same_denotation(m, expr, p) ==
    LET lhs_denotation == termDenotation(m, expr.lhs, p)
        rhs_denotation == termDenotation(m, expr.rhs, p)
    IN  IF ~lhs_denotation.ok THEN Err(lhs_denotation.err)
        ELSE IF ~rhs_denotation.ok THEN Err(rhs_denotation.err)
        ELSE Ok(lhs_denotation.val = rhs_denotation.val)

\* the lambda of the PredicationNode handler: arguments left to right,
\* then the predicate
tuple_in_extension(m, expr, p) ==
    LET n == Len(expr.arguments)
        den(i) == termDenotation(m, expr.arguments[i], p)
        failing == {i \in 1 .. n : ~den(i).ok}
        predint == predicateInterpretation(m, expr.predicate, p.world)
    IN  IF failing # {} THEN Err(den(Min(failing)).err)
        ELSE IF ~predint.ok THEN Err(predint.err)
        ELSE Ok([i \in 1 .. n |-> den(i).val] \in predint.val)

\* output.insert(p) for every p of every state variant, in order
RECURSIVE InsertAll(_, _, _)
InsertAll(output, state_variant, w) ==
    IF w >= NumWorlds THEN output
    ELSE IF w \notin WorldsOf(state_variant) THEN InsertAll(output, state_variant, w + 1)
    ELSE InsertAll(insert(output, At(state_variant, w)), state_variant, w + 1)

RECURSIVE MergeVariants(_, _, _)
MergeVariants(output, all_state_variants, i) ==
    IF i > Len(all_state_variants) THEN output
    ELSE MergeVariants(InsertAll(output, all_state_variants[i], 0), all_state_variants, i + 1)

RECURSIVE Eval(_, _, _)
\* a variant of the UnaryNode handler whose negation filter lost its "!":
\* it keeps the possibilities that subsist in the prejacent update
EvalUnaryKeepsSubsisting(m, expr, input_state) ==
    LET prejacent_update == Eval(m, expr.scope, input_state)
    IN  IF ~prejacent_update.ok
        THEN Unexpected(explain_failure(expr, prejacent_update.err))
        ELSE IF expr.op = "EPISTEMIC_POSSIBILITY"
             THEN Ok(IF prejacent_update.val = {} THEN {} ELSE input_state)
        ELSE IF expr.op = "EPISTEMIC_NECESSITY"
             THEN Ok(IF ~subsistsInState(input_state, prejacent_update.val) THEN {} ELSE input_state)
        ELSE IF expr.op = "NEGATION"
             THEN Ok({p \in input_state : subsistsIn(p, prejacent_update.val)})
        ELSE Unexpected(explain_failure(expr, Message("Invalid unary operator", "")))

\* a variant of the UnaryNode handler whose modals return the prejacent
\* update when the test passes, instead of the input state
EvalUnaryReturnsPrejacent(m, expr, input_state) ==
    LET prejacent_update == Eval(m, expr.scope, input_state)
    IN  IF ~prejacent_update.ok
        THEN Unexpected(explain_failure(expr, prejacent_update.err))
        ELSE IF expr.op = "EPISTEMIC_POSSIBILITY"
             THEN Ok(prejacent_update.val)
        ELSE IF expr.op = "EPISTEMIC_NECESSITY"
             THEN Ok(IF ~subsistsInState(input_state, prejacent_update.val)
                     THEN {} ELSE prejacent_update.val)
        ELSE IF expr.op = "NEGATION"
             THEN Ok({p \in input_state : ~subsistsIn(p, prejacent_update.val)})
        ELSE Unexpected(explain_failure(expr, Message("Invalid unary operator", "")))

EvalUnary(m, expr, input_state) ==
    LET prejacent_update == Eval(m, expr.scope, input_state)
    IN  IF ~prejacent_update.ok
        THEN Unexpected(explain_failure(expr, prejacent_update.err))
        ELSE IF expr.op = "EPISTEMIC_POSSIBILITY"
             THEN Ok(IF prejacent_update.val = {} THEN {} ELSE input_state)
        ELSE IF expr.op = "EPISTEMIC_NECESSITY"
             THEN Ok(IF ~subsistsInState(input_state, prejacent_update.val) THEN {} ELSE input_state)
        ELSE IF expr.op = "NEGATION"
             THEN Ok({p \in input_state : ~subsistsIn(p, prejacent_update.val)})
        ELSE Unexpected(explain_failure(expr, Message("Invalid unary operator", "")))

\* a variant of the conjunction branch that evaluates the right conjunct on
\* the input state and keeps what both updates hold: no sequencing
EvalConjunctionFromInput(m, expr, input_state) ==
    LET lhs_update == Eval(m, expr.lhs, input_state)
    IN  IF ~lhs_update.ok
        THEN Unexpected(explain_failure(expr, lhs_update.err))
        ELSE LET rhs_update == Eval(m, expr.rhs, input_state)
             IN  IF ~rhs_update.ok
                 THEN Unexpected(explain_failure(expr, rhs_update.err))
                 ELSE Ok({p \in lhs_update.val : contains(rhs_update.val, p)})

EvalConjunction(m, expr, input_state) ==
    LET lhs_update == Eval(m, expr.lhs, input_state)
    IN  IF ~lhs_update.ok
        THEN Unexpected(explain_failure(expr, lhs_update.err))
        ELSE LET rhs_update == Eval(m, expr.rhs, lhs_update.val)
             IN  IF ~rhs_update.ok
                 THEN Unexpected(explain_failure(expr, rhs_update.err))
                 ELSE Ok(rhs_update.val)

\* a variant of the disjunction branch that evaluates the right disjunct on
\* the input state instead of on the update with the negated left disjunct
EvalDisjunctionRhsOnInput(m, expr, input_state, hypothetical_lhs_update) ==
    LET negated_lhs_update == Eval(m, negate(expr.lhs), input_state)
    IN  IF ~negated_lhs_update.ok
        THEN Unexpected(explain_failure(expr, negated_lhs_update.err))
        ELSE LET hypothetical_rhs_update == Eval(m, expr.rhs, input_state)
             IN  IF ~hypothetical_rhs_update.ok
                 THEN Unexpected(explain_failure(expr, hypothetical_rhs_update.err))
                 ELSE Ok({p \in input_state :
                            \/ contains(hypothetical_lhs_update.val, p)
                            \/ contains(hypothetical_rhs_update.val, p)})

EvalDisjunction(m, expr, input_state, hypothetical_lhs_update) ==
    LET negated_lhs_update == Eval(m, negate(expr.lhs), input_state)
    IN  IF ~negated_lhs_update.ok
        THEN Unexpected(explain_failure(expr, negated_lhs_update.err))
        ELSE LET hypothetical_rhs_update == Eval(m, expr.rhs, negated_lhs_update.val)
             IN  IF ~hypothetical_rhs_update.ok
                 THEN Unexpected(explain_failure(expr, hypothetical_rhs_update.err))
                 ELSE Ok({p \in input_state :
                            \/ contains(hypothetical_lhs_update.val, p)
                            \/ contains(hypothetical_rhs_update.val, p)})

EvalConditional(m, expr, input_state, hypothetical_lhs_update) ==
    LET hypothetical_consequent_update == Eval(m, expr.rhs, hypothetical_lhs_update.val)
        all_descendants_subsist(p) ==
            \A p_star \in hypothetical_lhs_update.val :
                \/ ~isDescendantOf(p_star, p, hypothetical_lhs_update.val)
                \/ subsistsIn(p_star, hypothetical_consequent_update.val)
    IN  IF ~hypothetical_consequent_update.ok
        THEN Unexpected(explain_failure(expr, hypothetical_consequent_update.err))
        ELSE Ok({p \in input_state :
                    \/ ~subsistsIn(p, hypothetical_lhs_update.val)
                    \/ all_descendants_subsist(p)})

\* a variant of the BinaryNode handler without the final else: every
\* operator other than conjunction and disjunction is taken for a conditional
EvalBinaryDefaultsToConditional(m, expr, input_state) ==
    IF expr.op = "CONJUNCTION" THEN EvalConjunction(m, expr, input_state)
    ELSE LET hypothetical_lhs_update == Eval(m, expr.lhs, input_state)
         IN  IF ~hypothetical_lhs_update.ok
             THEN Unexpected(explain_failure(expr, hypothetical_lhs_update.err))
             ELSE IF expr.op = "DISJUNCTION"
                  THEN EvalDisjunction(m, expr, input_state, hypothetical_lhs_update)
             ELSE EvalConditional(m, expr, input_state, hypothetical_lhs_update)

EvalBinary(m, expr, input_state) ==
    IF expr.op = "CONJUNCTION" THEN EvalConjunction(m, expr, input_state)
    ELSE LET hypothetical_lhs_update == Eval(m, expr.lhs, input_state)
         IN  IF ~hypothetical_lhs_update.ok
             THEN Unexpected(explain_failure(expr, hypothetical_lhs_update.err))
             ELSE IF expr.op = "DISJUNCTION"
                  THEN EvalDisjunction(m, expr, input_state, hypothetical_lhs_update)
             ELSE IF expr.op = "CONDITIONAL"
                  THEN EvalConditional(m, expr, input_state, hypothetical_lhs_update)
             ELSE Unexpected(explain_failure(expr, Message("Invalid operator for binary formula", "")))

\* the scope evaluated on update(input_state, variable, d), for every d
ScopeUpdates(m, expr, input_state) ==
    [i \in 1 .. m.domainCardinality |->
        Eval(m, expr.scope, update(input_state, expr.variable, i - 1))]

\* a variant of the QuantificationNode handler whose universal filter keeps
\* a possibility that subsists in some hypothetical update, not in all
EvalQuantificationSomeUpdate(m, expr, input_state) ==
    IF expr.quantifier \notin {"EXISTENTIAL", "UNIVERSAL"}
    THEN Unexpected(explain_failure(expr, Message("Invalid quantifier", "")))
    ELSE LET branches == ScopeUpdates(m, expr, input_state)
             failing == {i \in DOMAIN branches : ~branches[i].ok}
             all_updates == [i \in DOMAIN branches |-> branches[i].val]
         IN  IF failing # {}
             THEN Unexpected(explain_failure(expr, branches[Min(failing)].err))
             ELSE IF expr.quantifier = "EXISTENTIAL"
                  THEN Ok(MergeVariants({}, all_updates, 1))
                  ELSE Ok({p \in input_state :
                             \E i \in DOMAIN all_updates : subsistsIn(p, all_updates[i])})

EvalQuantification(m, expr, input_state) ==
    IF expr.quantifier \notin {"EXISTENTIAL", "UNIVERSAL"}
    THEN Unexpected(explain_failure(expr, Message("Invalid quantifier", "")))
    ELSE LET branches == ScopeUpdates(m, expr, input_state)
             failing == {i \in DOMAIN branches : ~branches[i].ok}
             all_updates == [i \in DOMAIN branches |-> branches[i].val]
         IN  IF failing # {}
             THEN Unexpected(explain_failure(expr, branches[Min(failing)].err))
             ELSE IF expr.quantifier = "EXISTENTIAL"
                  THEN Ok(MergeVariants({}, all_updates, 1))
                  ELSE Ok({p \in input_state :
                             \A i \in DOMAIN all_updates : subsistsIn(p, all_updates[i])})

EvalIdentity(m, expr, input_state) ==
    LET filtered == filter(input_state,
                           [p \in input_state |-> assigns_same_denotation(m, expr, p)])
    IN  IF filtered.ok THEN filtered
        ELSE Unexpected(explain_failure(expr, filtered.err))

\* a variant of the PredicationNode handler whose filter loop advances the
\* iterator after an erase: the possibility after an erased one is not
\* examined and stays
EvalPredicationSkipsAfterErase(m, expr, input_state) ==
    LET R(p) == tuple_in_extension(m, expr, p)
        filtered == filter(input_state, [p \in input_state |-> R(p)])
        before(p) == {q \in input_state : q.world < p.world}
        previous(p) == CHOOSE q \in before(p) : \A o \in before(p) : o.world <= q.world
    IN  IF filtered.ok
        THEN Ok({p \in input_state :
                    \/ R(p).val
                    \/ (before(p) # {} /\ ~R(previous(p)).val)})
        ELSE Unexpected(explain_failure(expr, filtered.err))

\* a variant of the PredicationNode handler that looks the predicate up
\* before the filter loop, whether or not there is a possibility to test
EvalPredicationLooksUpFirst(m, expr, input_state) ==
    LET lookup == predicateInterpretation(m, expr.predicate, 0)
        filtered == filter(input_state,
                           [p \in input_state |-> tuple_in_extension(m, expr, p)])
    IN  IF ~lookup.ok THEN Unexpected(explain_failure(expr, lookup.err))
        ELSE IF filtered.ok THEN filtered
        ELSE Unexpected(explain_failure(expr, filtered.err))

EvalPredication(m, expr, input_state) ==
    LET filtered == filter(input_state,
                           [p \in input_state |-> tuple_in_extension(m, expr, p)])
    IN  IF filtered.ok THEN filtered
        ELSE Unexpected(explain_failure(expr, filtered.err))

\* the visitor dispatch; every handler works on its own copy of the state
Eval(m, expr, input_state) ==
    CASE expr.kind = "unary" -> EvalUnary(m, expr, input_state)
      [] expr.kind = "binary" -> EvalBinary(m, expr, input_state)
      [] expr.kind = "quant" -> EvalQuantification(m, expr, input_state)
      [] expr.kind = "ident" -> EvalIdentity(m, expr, input_state)
      [] expr.kind = "pred" -> EvalPredication(m, expr, input_state)

evaluate(m, expr, input_state) == Eval(m, expr, input_state)

(***************************************************************************)
(* The same evaluator with the referent systems as objects: a possibility  *)
(* holds a std::shared_ptr<ReferentSystem>, here an address of the heap,   *)
(* and copies of a possibility share the object.  A heap is the sequence   *)
(* of the referent systems allocated so far; every operation returns the   *)
(* heap it leaves behind.                                                  *)
(***************************************************************************)
\* the possibility with the referent system its pointer leads to
Deref(h, p) ==
    [referentSystem |-> h[p.referentSystem], assignment |-> p.assignment, world |-> p.world]

DerefState(h, s) == {Deref(h, p) : p \in s}

OkObjects(v, h) == [ok |-> TRUE, val |-> v, err |-> NoError, heap |-> h]

UnexpectedObjects(msg, h) == [ok |-> FALSE, val |-> {}, err |-> msg, heap |-> h]

\* a variant of update() that builds p_star as a copy of p instead of a
\* possibility on the new referent system: p_star.update then writes
\* through the pointer it shares with p
RECURSIVE UpdateObjectsThroughInputLoop(_, _, _, _, _, _)
UpdateObjectsThroughInputLoop(h, input_state, w, out, variable, individual) ==
    IF w >= NumWorlds THEN [heap |-> h, state |-> out]
    ELSE IF w \notin WorldsOf(input_state)
         THEN UpdateObjectsThroughInputLoop(h, input_state, w + 1, out, variable, individual)
         ELSE LET p == At(input_state, w)
                  u == PossibilityUpdate(h[p.referentSystem], p.assignment,
                                         variable, individual)
              IN  UpdateObjectsThroughInputLoop(
                      [h EXCEPT ![p.referentSystem] = u.r], input_state, w + 1,
                      insert(out, [referentSystem |-> p.referentSystem,
                                   assignment |-> u.assignment, world |-> p.world]),
                      variable, individual)

updateObjectsThroughInput(h, input_state, variable, individual) ==
    UpdateObjectsThroughInputLoop(h, input_state, 0, {}, variable, individual)

\* The loop of update() on the heap: r_star is the address of the referent
\* system made by std::make_shared; every write of the loop body goes
\* through r_star or through p_star.referentSystem, which is r_star.
RECURSIVE UpdateObjectsLoop(_, _, _, _, _, _, _)
UpdateObjectsLoop(h, input_state, w, r_star, out, variable, individual) ==
    IF w >= NumWorlds THEN [heap |-> h, state |-> out]
    ELSE IF w \notin WorldsOf(input_state)
         THEN UpdateObjectsLoop(h, input_state, w + 1, r_star, out, variable, individual)
         ELSE LET p == At(input_state, w)
                  p_star == [referentSystem |-> r_star, assignment |-> p.assignment,
                             world |-> p.world]
                  \* r_star->pegs = p.referentSystem->pegs
                  h1 == [h EXCEPT ![r_star].pegs = h[p.referentSystem].pegs]
                  \* r_star->variablePegAssociation[var] = peg, for p's bindings
                  h2 == [h1 EXCEPT ![r_star].variablePegAssociation =
                             MapMerge(@, h1[p.referentSystem].variablePegAssociation)]
                  \* p_star.update(variable, individual)
                  u == PossibilityUpdate(h2[p_star.referentSystem], p_star.assignment,
                                         variable, individual)
              IN  UpdateObjectsLoop(
                      [h2 EXCEPT ![p_star.referentSystem] = u.r], input_state, w + 1,
                      r_star,
                      insert(out, [p_star EXCEPT !.assignment = u.assignment]),
                      variable, individual)

updateObjects(h, input_state, variable, individual) ==
    UpdateObjectsLoop(Append(h, NewReferentSystem), input_state, 0, Len(h) + 1, {},
                      variable, individual)

RECURSIVE EvalObjects(_, _, _, _)
EvalObjectsUnary(m, expr, input_state, h) ==
    LET apply(prejacent_update) ==
            IF ~prejacent_update.ok
            THEN UnexpectedObjects(explain_failure(expr, prejacent_update.err),
                                   prejacent_update.heap)
            ELSE IF expr.op = "EPISTEMIC_POSSIBILITY"
                 THEN OkObjects(IF prejacent_update.val = {} THEN {} ELSE input_state,
                                prejacent_update.heap)
            ELSE IF expr.op = "EPISTEMIC_NECESSITY"
                 THEN OkObjects(IF ~subsistsInState(input_state, prejacent_update.val)
                                THEN {} ELSE input_state,
                                prejacent_update.heap)
            ELSE IF expr.op = "NEGATION"
                 THEN OkObjects({p \in input_state : ~subsistsIn(p, prejacent_update.val)},
                                prejacent_update.heap)
            ELSE UnexpectedObjects(
                     explain_failure(expr, Message("Invalid unary operator", "")),
                     prejacent_update.heap)
    IN  apply(EvalObjects(m, expr.scope, input_state, h))

EvalObjectsConjunction(m, expr, input_state, h) ==
    LET second(rhs_update) ==
            IF ~rhs_update.ok
            THEN UnexpectedObjects(explain_failure(expr, rhs_update.err), rhs_update.heap)
            ELSE rhs_update
        first(lhs_update) ==
            IF ~lhs_update.ok
            THEN UnexpectedObjects(explain_failure(expr, lhs_update.err), lhs_update.heap)
            ELSE second(EvalObjects(m, expr.rhs, lhs_update.val, lhs_update.heap))
    IN  first(EvalObjects(m, expr.lhs, input_state, h))

EvalObjectsDisjunction(m, expr, input_state, hypothetical_lhs_update) ==
    LET third(hypothetical_rhs_update) ==
            IF ~hypothetical_rhs_update.ok
            THEN UnexpectedObjects(explain_failure(expr, hypothetical_rhs_update.err),
                                   hypothetical_rhs_update.heap)
            ELSE OkObjects({p \in input_state :
                               \/ contains(hypothetical_lhs_update.val, p)
                               \/ contains(hypothetical_rhs_update.val, p)},
                           hypothetical_rhs_update.heap)
        second(negated_lhs_update) ==
            IF ~negated_lhs_update.ok
            THEN UnexpectedObjects(explain_failure(expr, negated_lhs_update.err),
                                   negated_lhs_update.heap)
            ELSE third(EvalObjects(m, expr.rhs, negated_lhs_update.val,
                                   negated_lhs_update.heap))
    IN  second(EvalObjects(m, negate(expr.lhs), input_state, hypothetical_lhs_update.heap))

EvalObjectsConditional(m, expr, input_state, hypothetical_lhs_update) ==
    LET second(hypothetical_consequent_update) ==
            IF ~hypothetical_consequent_update.ok
            THEN UnexpectedObjects(
                     explain_failure(expr, hypothetical_consequent_update.err),
                     hypothetical_consequent_update.heap)
            ELSE OkObjects(
                     {p \in input_state :
                         \/ ~subsistsIn(p, hypothetical_lhs_update.val)
                         \/ \A p_star \in hypothetical_lhs_update.val :
                               \/ ~isDescendantOf(p_star, p, hypothetical_lhs_update.val)
                               \/ subsistsIn(p_star, hypothetical_consequent_update.val)},
                     hypothetical_consequent_update.heap)
    IN  second(EvalObjects(m, expr.rhs, hypothetical_lhs_update.val,
                           hypothetical_lhs_update.heap))

EvalObjectsBinary(m, expr, input_state, h) ==
    IF expr.op = "CONJUNCTION" THEN EvalObjectsConjunction(m, expr, input_state, h)
    ELSE LET rest(hypothetical_lhs_update) ==
                 IF ~hypothetical_lhs_update.ok
                 THEN UnexpectedObjects(explain_failure(expr, hypothetical_lhs_update.err),
                                        hypothetical_lhs_update.heap)
                 ELSE IF expr.op = "DISJUNCTION"
                      THEN EvalObjectsDisjunction(m, expr, input_state,
                                                  hypothetical_lhs_update)
                 ELSE IF expr.op = "CONDITIONAL"
                      THEN EvalObjectsConditional(m, expr, input_state,
                                                  hypothetical_lhs_update)
                 ELSE UnexpectedObjects(
                          explain_failure(expr,
                                          Message("Invalid operator for binary formula", "")),
                          hypothetical_lhs_update.heap)
         IN  rest(EvalObjects(m, expr.lhs, input_state, h))

\* the loop over the individuals: each s_variant is made by update() and
\* the scope is evaluated on it; the first failure leaves the loop
RECURSIVE ScopeUpdatesObjects(_, _, _, _, _, _)
ScopeUpdatesObjects(m, expr, input_state, h, d, all_state_variants) ==
    IF d >= m.domainCardinality
    THEN OkObjects(all_state_variants, h)
    ELSE LET next(hypothetical_update) ==
                 IF ~hypothetical_update.ok
                 THEN UnexpectedObjects(explain_failure(expr, hypothetical_update.err),
                                        hypothetical_update.heap)
                 ELSE ScopeUpdatesObjects(m, expr, input_state, hypothetical_update.heap,
                                          d + 1,
                                          Append(all_state_variants, hypothetical_update.val))
             scope(s_variant) ==
                 next(EvalObjects(m, expr.scope, s_variant.state, s_variant.heap))
         IN  scope(updateObjects(h, input_state, expr.variable, d))

EvalObjectsQuantification(m, expr, input_state, h) ==
    IF expr.quantifier \notin {"EXISTENTIAL", "UNIVERSAL"}
    THEN UnexpectedObjects(explain_failure(expr, Message("Invalid quantifier", "")), h)
    ELSE LET collect(branches) ==
                 IF ~branches.ok THEN branches
                 ELSE IF expr.quantifier = "EXISTENTIAL"
                      THEN OkObjects(MergeVariants({}, branches.val, 1), branches.heap)
                      ELSE OkObjects({p \in input_state :
                                         \A i \in DOMAIN branches.val :
                                            subsistsIn(p, branches.val[i])},
                                     branches.heap)
         IN  collect(ScopeUpdatesObjects(m, expr, input_state, h, 0, <<>>))

EvalObjectsIdentity(m, expr, input_state, h) ==
    LET filtered == filter(input_state,
                           [p \in input_state |->
                               assigns_same_denotation(m, expr, Deref(h, p))])
    IN  IF filtered.ok THEN OkObjects(filtered.val, h)
        ELSE UnexpectedObjects(explain_failure(expr, filtered.err), h)

EvalObjectsPredication(m, expr, input_state, h) ==
    LET filtered == filter(input_state,
                           [p \in input_state |->
                               tuple_in_extension(m, expr, Deref(h, p))])
    IN  IF filtered.ok THEN OkObjects(filtered.val, h)
        ELSE UnexpectedObjects(explain_failure(expr, filtered.err), h)

\* the visitor dispatch: params is passed by value, so the handler's
\* input_state is a copy of the set whose possibilities share the referent
\* systems of the caller's
EvalObjects(m, expr, input_state, h) ==
    CASE expr.kind = "unary" -> EvalObjectsUnary(m, expr, input_state, h)
      [] expr.kind = "binary" -> EvalObjectsBinary(m, expr, input_state, h)
      [] expr.kind = "quant" -> EvalObjectsQuantification(m, expr, input_state, h)
      [] expr.kind = "ident" -> EvalObjectsIdentity(m, expr, input_state, h)
      [] expr.kind = "pred" -> EvalObjectsPredication(m, expr, input_state, h)

evaluateObjects(m, expr, input_state, h) == EvalObjects(m, expr, input_state, h)

(***************************************************************************)
(* Semantic relations                                                      *)
(***************************************************************************)
\* std::any_of / std::all_of with a predicate that may throw: the first
\* throw met before the deciding item is the outcome
AnyOf(outcomes) ==
    LET yes == {j \in DOMAIN outcomes : outcomes[j].ok /\ outcomes[j].val}
        thrown == {j \in DOMAIN outcomes : ~outcomes[j].ok}
    IN  IF thrown # {} /\ (yes = {} \/ Min(thrown) < Min(yes))
        THEN Err(outcomes[Min(thrown)].err)
        ELSE Ok(yes # {})

\* a variant of the loops over the enumerated states that takes a failed
\* evaluation for a state that does not pass: the relation answers false
AllOfTakesThrowForFalse(outcomes) ==
    Ok(\A j \in DOMAIN outcomes : outcomes[j].ok /\ outcomes[j].val)

AllOf(outcomes) ==
    LET no == {j \in DOMAIN outcomes : outcomes[j].ok /\ ~outcomes[j].val}
        thrown == {j \in DOMAIN outcomes : ~outcomes[j].ok}
    IN  IF thrown # {} /\ (no = {} \/ Min(thrown) < Min(no))
        THEN Err(outcomes[Min(thrown)].err)
        ELSE Ok(no = {})

\* the possibilities of a state in iteration order
RECURSIVE Elements(_, _)
Elements(s, w) ==
    IF w >= NumWorlds THEN <<>>
    ELSE IF w \in WorldsOf(s) THEN <<At(s, w)>> \o Elements(s, w + 1)
    ELSE Elements(s, w + 1)

consistentIn(m, expr, state) ==
    LET outcome(hypothetical_update) ==
            IF ~hypothetical_update.ok
            THEN Err(explain_failure(expr, hypothetical_update.err))
            ELSE Ok(hypothetical_update.val # {})
    IN  outcome(evaluate(m, expr, state))

supports(m, state, expr) ==
    LET outcome(hypothetical_update) ==
            IF ~hypothetical_update.ok
            THEN Err(explain_failure(expr, hypothetical_update.err))
            ELSE Ok(subsistsInState(state, hypothetical_update.val))
    IN  outcome(evaluate(m, expr, state))

\* generateSubStates(n, k): the backtracking enumeration, in its order
RECURSIVE backtrack(_, _, _, _), backtrackLoop(_, _, _, _)
backtrack(start, current, n, k) ==
    IF Cardinality(current) = k THEN <<current>>
    ELSE backtrackLoop(start, current, n, k)

\* a variant of the loop of backtrack that stops one world early: i < n
backtrackLoopBelowN(i, current, n, k) ==
    IF i >= n THEN <<>>
    ELSE backtrack(i + 1, insert(current, NewPossibility(NewReferentSystem, i)), n, k)
            \o backtrackLoop(i + 1, current, n, k)

backtrackLoop(i, current, n, k) ==
    IF i > n THEN <<>>
    ELSE backtrack(i + 1, insert(current, NewPossibility(NewReferentSystem, i)), n, k)
            \o backtrackLoop(i + 1, current, n, k)

generateSubStates(n, k) ==
    IF k = 0 THEN <<{}>>
    ELSE IF k > n + 1 THEN <<>>
    ELSE backtrack(0, {}, n, k)

\* the cardinalities the relations iterate over: std::views::iota(0, W)
Cardinalities(m) == 0 .. (m.worldCardinality - 1)

\* one round of a relation's loop over the cardinalities: a throw is
\* returned as the error, the deciding outcome returns false, otherwise the
\* loop goes on to the next cardinality
Round(outcome, decides, rest) ==
    IF ~outcome.ok THEN outcome
    ELSE IF outcome.val = decides THEN Ok(FALSE)
    ELSE rest

\* consistent(expr, model): for each cardinality, any_of over the states
RECURSIVE consistentLoop(_, _, _)
consistentLoop(m, expr, i) ==
    IF i \notin Cardinalities(m) THEN Ok(TRUE)
    ELSE LET states == generateSubStates(m.worldCardinality - 1, i)
         IN  Round(AnyOf([j \in 1 .. Len(states) |-> consistentIn(m, expr, states[j])]),
                   FALSE,
                   consistentLoop(m, expr, i + 1))

consistent(m, expr) == consistentLoop(m, expr, 0)

\* the lambda of coherent()
is_not_empty_or_supports_expression(m, expr, state) ==
    LET outcome(result) == IF ~result.ok THEN result ELSE Ok(state # {} /\ result.val)
    IN  outcome(supports(m, state, expr))

RECURSIVE coherentLoop(_, _, _)
coherentLoop(m, expr, i) ==
    IF i \notin Cardinalities(m) THEN Ok(TRUE)
    ELSE LET states == generateSubStates(m.worldCardinality - 1, i)
         IN  Round(AnyOf([j \in 1 .. Len(states) |->
                             is_not_empty_or_supports_expression(m, expr, states[j])]),
                   FALSE,
                   coherentLoop(m, expr, i + 1))

coherent(m, expr) == coherentLoop(m, expr, 0)

\* sequentiallyUpdate(state, expressions, model) works on the caller's
\* state in place; the value here is that state when the loop ends
RECURSIVE sequentiallyUpdate(_, _, _, _)
sequentiallyUpdate(m, state, expressions, i) ==
    IF i > Len(expressions) THEN Ok(state)
    ELSE LET next(upd) ==
                 IF ~upd.ok THEN Unexpected(explain_failure(expressions[i], upd.err))
                 ELSE sequentiallyUpdate(m, upd.val, expressions, i + 1)
         IN  next(evaluate(m, expressions[i], state))

\* the body of the inner loop of entails_G for one enumerated state:
\* an error, or whether the updated state supports the conclusion
entailsAt(m, premises, conclusion, input_state) ==
    LET support(updated, conclusion_update) ==
            IF ~conclusion_update.ok THEN Err(conclusion_update.err)
            ELSE supports(m, updated, conclusion)
        conclude(sequential_update) ==
            IF ~sequential_update.ok THEN Err(sequential_update.err)
            ELSE support(sequential_update.val,
                         evaluate(m, conclusion, sequential_update.val))
    IN  conclude(sequentiallyUpdate(m, input_state, premises, 1))

RECURSIVE entailsGLoop(_, _, _, _)
entailsGLoop(m, premises, conclusion, i) ==
    IF i \notin Cardinalities(m) THEN Ok(TRUE)
    ELSE LET states == generateSubStates(m.worldCardinality - 1, i)
         IN  Round(AllOf([j \in 1 .. Len(states) |->
                             entailsAt(m, premises, conclusion, states[j])]),
                   FALSE,
                   entailsGLoop(m, premises, conclusion, i + 1))

entails_G(m, premises, conclusion) == entailsGLoop(m, premises, conclusion, 0)

\* entails_0(premises, conclusion, model): the body of entails_G applied to
\* the ignorant state create(model) only
entails_0(m, premises, conclusion) == entailsAt(m, premises, conclusion, create(m))

\* the premise loop of entails_C for one enumerated state: an error, or
\* whether the state supports every premise (the loop breaks at the first
\* premise it does not support)
RECURSIVE supports_every_premise(_, _, _, _)
supports_every_premise(m, input_state, premises, k) ==
    IF k > Len(premises) THEN Ok(TRUE)
    ELSE LET next(supports_premise) ==
                 IF ~supports_premise.ok THEN supports_premise
                 ELSE IF ~supports_premise.val THEN Ok(FALSE)
                 ELSE supports_every_premise(m, input_state, premises, k + 1)
         IN  next(supports(m, input_state, premises[k]))

\* the body of the inner loop of entails_C for one enumerated state: an
\* error, or whether the loop goes on (the state is not a counterexample)
entailsCAt(m, premises, conclusion, input_state) ==
    LET decide(every) ==
            IF ~every.ok THEN every
            ELSE IF ~every.val THEN Ok(TRUE)
            ELSE supports(m, input_state, conclusion)
    IN  decide(supports_every_premise(m, input_state, premises, 1))

RECURSIVE entailsCLoop(_, _, _, _)
entailsCLoop(m, premises, conclusion, i) ==
    IF i \notin Cardinalities(m) THEN Ok(TRUE)
    ELSE LET states == generateSubStates(m.worldCardinality - 1, i)
         IN  Round(AllOf([j \in 1 .. Len(states) |->
                             entailsCAt(m, premises, conclusion, states[j])]),
                   FALSE,
                   entailsCLoop(m, premises, conclusion, i + 1))

entails_C(m, premises, conclusion) == entailsCLoop(m, premises, conclusion, 0)

\* the variables a referent system binds, in the order of std::set
VariableOrder == <<"x", "y">>

\* the lambda of similar(p1, p2), asked only of the variables p1 binds
have_same_denotation(variable, p1, p2) ==
    IF variable \notin DOMAIN p1.referentSystem.variablePegAssociation THEN Ok(TRUE)
    ELSE LET denotation_at_p1 == variableDenotation(variable, p1)
             denotation_at_p2 == variableDenotation(variable, p2)
         IN  IF ~denotation_at_p1.ok THEN Err(denotation_at_p1.err)
             ELSE IF ~denotation_at_p2.ok THEN Err(denotation_at_p2.err)
             ELSE Ok(denotation_at_p1.val = denotation_at_p2.val)

similarPossibility(p1, p2) ==
    IF \/ p1.world # p2.world
       \/ DOMAIN p1.referentSystem.variablePegAssociation
            # DOMAIN p2.referentSystem.variablePegAssociation
    THEN Ok(FALSE)
    ELSE AllOf([j \in 1 .. Len(VariableOrder) |->
                   have_same_denotation(VariableOrder[j], p1, p2)])

\* every possibility of s1 has a similar one in s2
has_similar_possibility(s1, s2) ==
    LET e1 == Elements(s1, 0)
        e2 == Elements(s2, 0)
    IN  AllOf([i \in 1 .. Len(e1) |->
                  AnyOf([j \in 1 .. Len(e2) |-> similarPossibility(e1[i], e2[j])])])

similar(s1, s2) ==
    LET back(forth) ==
            IF ~forth.ok \/ ~forth.val THEN forth
            ELSE has_similar_possibility(s2, s1)
    IN  back(has_similar_possibility(s1, s2))

\* the lambda of equivalent(): operator! applied to the std::expected that
\* similar() returns tests has_value(), not the boolean it holds
dissimilar_updates(m, expr1, expr2, state) ==
    LET compare(expr1_update, expr2_update) ==
            IF ~expr1_update.ok THEN Err(expr1_update.err)
            ELSE IF ~expr2_update.ok THEN Err(expr2_update.err)
            ELSE Ok(~similar(expr1_update.val, expr2_update.val).ok)
    IN  compare(evaluate(m, expr1, state), evaluate(m, expr2, state))

RECURSIVE equivalentLoop(_, _, _, _)
equivalentLoop(m, expr1, expr2, i) ==
    IF i \notin Cardinalities(m) THEN Ok(TRUE)
    ELSE LET states == generateSubStates(m.worldCardinality - 1, i)
         IN  Round(AnyOf([j \in 1 .. Len(states) |->
                             dissimilar_updates(m, expr1, expr2, states[j])]),
                   TRUE,
                   equivalentLoop(m, expr1, expr2, i + 1))

equivalent(m, expr1, expr2) == equivalentLoop(m, expr1, expr2, 0)

(***************************************************************************)
(* Models and formulas the client works with                               *)
(***************************************************************************)
\* a model with unary predicates P and Q and one constant a; the predicate
\* U and the constant u are left uninterpreted
MkModel(P, Q, a) ==
    [worldCardinality |-> NumWorlds,
     domainCardinality |-> NumIndividuals,
     terms |-> [c \in {"a"} |-> a],
     predicates |-> [n \in {"P", "Q"} |->
                        [w \in Worlds |-> {<<d>> : d \in (IF n = "P" THEN P[w] ELSE Q[w])}]]]

\* the extensions P takes at a world: every subset when there are two
\* individuals
Extensions == {{}, {0}, {NumIndividuals - 1}, Individuals}

\* P varies freely over the worlds; Q holds of one individual that changes
\* with the world; a is rigid
Models ==
    {MkModel(P, [w \in Worlds |-> {(w + 1) % NumIndividuals}], [w \in Worlds |-> 0]) :
        P \in [Worlds -> Extensions]}

\* the example model: P holds of individual 0 alone at world 0 and of every
\* individual at the other worlds
ExampleModel ==
    MkModel([w \in Worlds |-> IF w = 0 THEN {0} ELSE Individuals],
            [w \in Worlds |-> {(w + 1) % NumIndividuals}],
            [w \in Worlds |-> 0])

Px == Pred("P", <<Var("x")>>)

Qx == Pred("Q", <<Var("x")>>)

Pa == Pred("P", <<Const("a")>>)

Qa == Pred("Q", <<Const("a")>>)

ExPx == Quant("EXISTENTIAL", "x", Px)

\* quantifier-free formulas without free variables and without modals
ModalFreeTests ==
    {Pa, negate(Pa),
     Binary("CONJUNCTION", Pa, Qa), Binary("DISJUNCTION", Pa, Qa),
     Binary("CONDITIONAL", Pa, Qa),
     negate(Binary("DISJUNCTION", Pa, Qa)),
     Binary("CONJUNCTION", negate(Pa), negate(Qa))}

\* quantifier-free formulas without free variables that hold a modal
ModalTests ==
    {Unary("EPISTEMIC_POSSIBILITY", Pa), Unary("EPISTEMIC_NECESSITY", Pa),
     Binary("CONJUNCTION", Unary("EPISTEMIC_POSSIBILITY", Pa), negate(Pa))}

Tests == ModalFreeTests \cup ModalTests

\* formulas that introduce discourse referents
Quantified ==
    {ExPx, negate(ExPx),
     Binary("CONJUNCTION", ExPx, Qx),
     Binary("DISJUNCTION", ExPx, Qa),
     Binary("CONDITIONAL", ExPx, Qx),
     Unary("EPISTEMIC_POSSIBILITY", ExPx),
     Unary("EPISTEMIC_NECESSITY", ExPx),
     Quant("UNIVERSAL", "x", Px),
     negate(Quant("EXISTENTIAL", "x", negate(Px))),
     Quant("UNIVERSAL", "x", Binary("CONDITIONAL", Px, Qx)),
     Quant("UNIVERSAL", "x", Binary("DISJUNCTION", Px, Qx)),
     Quant("UNIVERSAL", "y", Px)}

\* formulas with a free variable
Open == {Px, Qx, Ident(Var("x"), Const("a"))}

\* negated disjunctions of quantifier-free formulas: a modal disjunct, a
\* free variable, both
NegatedDisjunctions ==
    {negate(Binary("DISJUNCTION", Pa, Unary("EPISTEMIC_POSSIBILITY", Qa))),
     negate(Binary("DISJUNCTION", Px, Qa)),
     negate(Binary("DISJUNCTION", Unary("EPISTEMIC_NECESSITY", Pa), Qx))}

\* the children of a node, in the order the handlers visit them
ImmediateSubformulas(expr) ==
    CASE expr.kind = "unary" -> {expr.scope}
      [] expr.kind = "binary" -> {expr.lhs, expr.rhs}
      [] expr.kind = "quant" -> {expr.scope}
      [] OTHER -> {}

\* the predicates that occur in a formula
RECURSIVE PredicatesOf(_)
PredicatesOf(expr) ==
    CASE expr.kind = "unary" -> PredicatesOf(expr.scope)
      [] expr.kind = "binary" -> PredicatesOf(expr.lhs) \cup PredicatesOf(expr.rhs)
      [] expr.kind = "quant" -> PredicatesOf(expr.scope)
      [] expr.kind = "pred" -> {expr.predicate}
      [] OTHER -> {}

\* the atomic formula the evaluator reaches first: every handler starts with
\* its scope or its left-hand side, on the state it was given or on an
\* update of it by a variable
RECURSIVE FirstAtom(_)
FirstAtom(expr) ==
    CASE expr.kind = "unary" -> FirstAtom(expr.scope)
      [] expr.kind = "binary" -> FirstAtom(expr.lhs)
      [] expr.kind = "quant" -> FirstAtom(expr.scope)
      [] OTHER -> expr

\* no QuantificationNode occurs in the expression
RECURSIVE QuantifierFree(_)
QuantifierFree(expr) ==
    CASE expr.kind = "unary" -> QuantifierFree(expr.scope)
      [] expr.kind = "binary" -> QuantifierFree(expr.lhs) /\ QuantifierFree(expr.rhs)
      [] expr.kind = "quant" -> FALSE
      [] OTHER -> TRUE

\* an atomic formula whose predicate the model does not interpret
Ua == Pred("U", <<Const("a")>>)

\* formulas that mention a predicate or a term the model does not interpret
Uninterpreted ==
    {Ua, negate(Ua),
     Binary("CONJUNCTION", Pa, Ua),
     Binary("DISJUNCTION", Pa, Ua),
     Quant("EXISTENTIAL", "x", Pred("U", <<Var("x")>>)),
     Pred("P", <<Const("u")>>)}

\* expressions with an operator or a quantifier outside the accepted
\* enumerations
Invalid ==
    {Unary("OTHER", Pa),
     Binary("BICONDITIONAL", Pa, Qa),
     Binary("BICONDITIONAL", Px, Qa),
     Quant("OTHER", "x", Px),
     negate(Binary("BICONDITIONAL", Pa, Qa)),
     Binary("CONJUNCTION", Pa, Unary("OTHER", Qa))}

Formulas ==
    Tests \cup Quantified \cup Open \cup Uninterpreted \cup Invalid \cup NegatedDisjunctions

Variables == {"x", "y"}

(***************************************************************************)
(* The client: a model, its current information state, the last call, and  *)
(* the referent systems on the heap when they are followed as objects      *)
(***************************************************************************)
VARIABLES model, state, res, steps, heap

vars == <<model, state, res, steps, heap>>

NoFormula == [kind |-> "none"]

Call(op, expr, other, input, output) ==
    [op |-> op, expr |-> expr, other |-> other, input |-> input, output |-> output]

NoCall == Call("none", NoFormula, <<>>, {}, Ok({}))

\* the arguments of update(input_state, variable, individual) after the state
UpdateArguments(variable, individual) ==
    [kind |-> "none", variable |-> variable, individual |-> individual]

Init ==
    /\ model \in Models
    /\ state = create(model)
    /\ res = NoCall
    /\ steps = 0
    /\ heap = <<>>

\* the client takes the j-th state of generateSubStates(W - 1, k), as the
\* relations do for every cardinality they visit
Enumerate(k, j) ==
    /\ res.op = "none"
    /\ steps = 0
    /\ LET states == generateSubStates(model.worldCardinality - 1, k)
       IN  /\ j \in 1 .. Len(states)
           /\ res' = Call("enumerate", NoFormula, <<k, j>>, state, Ok(states[j]))
           /\ state' = states[j]
    /\ steps' = steps + 1
    /\ UNCHANGED <<model, heap>>

\* state = update(state, variable, individual)
Update(variable, individual) ==
    /\ res.op = "none"
    /\ steps < MaxSteps
    /\ LET out == update(state, variable, individual)
       IN  /\ res' = Call("update", NoFormula, <<variable, individual>>, state, Ok(out))
           /\ state' = out
    /\ steps' = steps + 1
    /\ UNCHANGED <<model, heap>>

\* result = evaluate(expr, state, model); on success the client goes on
\* with the result
Evaluate(expr) ==
    /\ res.op = "none"
    /\ steps < MaxSteps
    /\ LET out == evaluate(model, expr, state)
       IN  /\ res' = Call("evaluate", expr, <<>>, state, out)
           /\ state' = IF out.ok THEN out.val ELSE state
    /\ steps' = steps + 1
    /\ UNCHANGED <<model, heap>>

\* the client is done with the result of the last call
Return ==
    /\ res.op # "none"
    /\ res' = NoCall
    /\ UNCHANGED <<model, state, steps, heap>>

\* C(W, k) never exceeds 2^W
MaxIndex == 2 ^ NumWorlds

Next ==
    \/ \E k \in 0 .. NumWorlds, j \in 1 .. MaxIndex : Enumerate(k, j)
    \/ \E v \in Variables, d \in Individuals : Update(v, d)
    \/ \E f \in Formulas : Evaluate(f)
    \/ Return

Spec == Init /\ [][Next]_vars

(***************************************************************************)
(* The client of the semantic relations                                    *)
(***************************************************************************)
\* premise lists and conclusions handed to entails_G
Premises ==
    {<<>>, <<Pa>>, <<Unary("EPISTEMIC_POSSIBILITY", Pa)>>, <<ExPx>>, <<Pa, Qa>>,
     <<Px>>, <<Pa, Ua>>}

Conclusions ==
    {Pa, Qa, Qx, Unary("EPISTEMIC_POSSIBILITY", Pa),
     Binary("CONDITIONAL", Unary("EPISTEMIC_POSSIBILITY", Pa), Pa)}

\* formulas compared by equivalent
Compared ==
    {Pa, negate(Pa), negate(negate(Pa)), ExPx, negate(ExPx),
     Quant("UNIVERSAL", "x", Px),
     negate(Quant("EXISTENTIAL", "x", negate(Px))), Px}

\* consistent(expr, model)
Consistent(expr) ==
    /\ res.op = "none"
    /\ res' = Call("consistent", expr, <<>>, {}, consistent(model, expr))
    /\ UNCHANGED <<model, state, steps, heap>>

\* coherent(expr, model)
Coherent(expr) ==
    /\ res.op = "none"
    /\ res' = Call("coherent", expr, <<>>, {}, coherent(model, expr))
    /\ UNCHANGED <<model, state, steps, heap>>

\* entails_G(premises, conclusion, model)
EntailsG(premises, conclusion) ==
    /\ res.op = "none"
    /\ res' = Call("entails_G", conclusion, premises, {},
                   entails_G(model, premises, conclusion))
    /\ UNCHANGED <<model, state, steps, heap>>

\* equivalent(expr1, expr2, model)
Equivalent(expr1, expr2) ==
    /\ res.op = "none"
    /\ res' = Call("equivalent", expr1, expr2, {}, equivalent(model, expr1, expr2))
    /\ UNCHANGED <<model, state, steps, heap>>

\* entails_0(premises, conclusion, model)
Entails0(premises, conclusion) ==
    /\ res.op = "none"
    /\ res' = Call("entails_0", conclusion, premises, {},
                   entails_0(model, premises, conclusion))
    /\ UNCHANGED <<model, state, steps, heap>>

\* entails_C(premises, conclusion, model)
EntailsC(premises, conclusion) ==
    /\ res.op = "none"
    /\ res' = Call("entails_C", conclusion, premises, {},
                   entails_C(model, premises, conclusion))
    /\ UNCHANGED <<model, state, steps, heap>>

\* supports(s, expr, model) for the j-th state s of generateSubStates(W - 1, k)
Supports(expr, k, j) ==
    /\ res.op = "none"
    /\ LET states == generateSubStates(model.worldCardinality - 1, k)
       IN  /\ j \in 1 .. Len(states)
           /\ res' = Call("supports", expr, <<>>, states[j],
                          supports(model, states[j], expr))
    /\ UNCHANGED <<model, state, steps, heap>>

\* consistent(expr, s, model) for the j-th state s of generateSubStates(W - 1, k)
ConsistentIn(expr, k, j) ==
    /\ res.op = "none"
    /\ LET states == generateSubStates(model.worldCardinality - 1, k)
       IN  /\ j \in 1 .. Len(states)
           /\ res' = Call("consistentIn", expr, <<>>, states[j],
                          consistentIn(model, expr, states[j]))
    /\ UNCHANGED <<model, state, steps, heap>>

\* the largest n handed to generateSubStates(n, k) on its own
MaxWorldIndex == 3

\* generateSubStates(n, k), for any n from -1 (a model without worlds) and
\* any k, also those the relations never ask for
GenerateSubStates(n, k) ==
    /\ res.op = "none"
    /\ res' = Call("generateSubStates", NoFormula, <<n, k>>, {}, Ok(generateSubStates(n, k)))
    /\ UNCHANGED <<model, state, steps, heap>>

NextRel ==
    \/ \E f \in Formulas : Consistent(f)
    \/ \E f \in Formulas : Coherent(f)
    \/ \E ps \in Premises, c \in Conclusions : EntailsG(ps, c)
    \/ \E f \in Compared, g \in Compared : Equivalent(f, g)
    \/ \E ps \in Premises, c \in Conclusions : Entails0(ps, c)
    \/ \E ps \in Premises, c \in Conclusions : EntailsC(ps, c)
    \/ \E f \in Formulas, k \in 0 .. NumWorlds, j \in 1 .. MaxIndex : Supports(f, k, j)
    \/ \E f \in Formulas, k \in 0 .. NumWorlds, j \in 1 .. MaxIndex : ConsistentIn(f, k, j)
    \/ \E n \in (-1) .. MaxWorldIndex, k \in 0 .. (MaxWorldIndex + 2) : GenerateSubStates(n, k)
    \/ Return

SpecRel == Init /\ [][NextRel]_vars

(***************************************************************************)
(* The client of the core library: extends and subsistsIn are applied to   *)
(* possibilities and states built by hand, with any world and assignment   *)
(***************************************************************************)
\* pegs an assignment built by hand may map
MaxPegs == 1

Pegs == 1 .. MaxPegs

\* std::unordered_map<int, int>: every partial map from pegs to individuals
Assignments == UNION {[d -> Individuals] : d \in SUBSET Pegs}

\* a possibility whose public assignment member was filled in by hand
Possibilities ==
    {[referentSystem |-> NewReferentSystem, assignment |-> a, world |-> w] :
        a \in Assignments, w \in Worlds}

\* std::set<Possibility> holds at most one possibility per world
InformationStates ==
    {s \in SUBSET Possibilities : \A p \in s, q \in s : Equiv(p, q) => p = q}

InitCore ==
    /\ model = ExampleModel
    /\ state = {}
    /\ res = NoCall
    /\ steps = 0
    /\ heap = <<>>

\* extends(p2, p1)
CallExtends(p2, p1) ==
    /\ res.op = "none"
    /\ res' = Call("extends", NoFormula, <<p2, p1>>, {}, Ok(extends(p2, p1)))
    /\ UNCHANGED <<model, state, steps, heap>>

\* subsistsIn(s1, s2), subsistsIn(s2, s3) and subsistsIn(s1, s3)
CallSubsistsIn(s1, s2, s3) ==
    /\ res.op = "none"
    /\ res' = Call("subsistsIn", NoFormula, <<s1, s2, s3>>, {},
                   Ok(<<subsistsInState(s1, s2), subsistsInState(s2, s3),
                        subsistsInState(s1, s3)>>))
    /\ UNCHANGED <<model, state, steps, heap>>

NextCore ==
    \/ \E p2 \in Possibilities, p1 \in Possibilities : CallExtends(p2, p1)
    \/ \E s1 \in InformationStates, s2 \in InformationStates,
          s3 \in InformationStates : CallSubsistsIn(s1, s2, s3)
    \/ Return

SpecCore == InitCore /\ [][NextCore]_vars

(***************************************************************************)
(* The client with the referent systems as objects: state holds            *)
(* possibilities whose referentSystem is an address of heap                *)
(***************************************************************************)
\* the models of this client: P holds of the first individual alone at the
\* first world and varies over the others
ObjectModels == {m \in Models : m.predicates["P"][0] = {<<0>>}}

\* create(model): one referent system shared by a possibility per world
InitObjects ==
    /\ model \in ObjectModels
    /\ heap = <<NewReferentSystem>>
    /\ state = {[referentSystem |-> 1, assignment |-> EmptyMap, world |-> i] :
                    i \in 0 .. (model.worldCardinality - 1)}
    /\ res = NoCall
    /\ steps = 0

\* the client takes the j-th state of generateSubStates(W - 1, k): every
\* possibility of it has a referent system of its own
EnumerateObjects(k, j) ==
    /\ res.op = "none"
    /\ steps = 0
    /\ LET states == generateSubStates(model.worldCardinality - 1, k)
       IN  /\ j \in 1 .. Len(states)
           /\ LET elements == Elements(states[j], 0)
                  made == {[referentSystem |-> Len(heap) + i,
                            assignment |-> elements[i].assignment,
                            world |-> elements[i].world] : i \in 1 .. Len(elements)}
              IN  /\ heap' = heap \o [i \in 1 .. Len(elements) |-> elements[i].referentSystem]
                  /\ state' = made
                  /\ res' = Call("enumerate", NoFormula, heap, state, OkObjects(made, heap'))
    /\ steps' = steps + 1
    /\ UNCHANGED model

\* result = update(state, variable, individual); the input stays in hand
UpdateObjects(variable, individual) ==
    /\ res.op = "none"
    /\ steps < MaxSteps
    /\ LET out == updateObjects(heap, state, variable, individual)
       IN  /\ res' = Call("update", UpdateArguments(variable, individual), heap, state,
                          OkObjects(out.state, out.heap))
           /\ heap' = out.heap
    /\ steps' = steps + 1
    /\ UNCHANGED <<model, state>>

\* result = evaluate(expr, state, model); the input stays in hand
EvaluateObjects(expr) ==
    /\ res.op = "none"
    /\ steps < MaxSteps
    /\ LET out == evaluateObjects(model, expr, state, heap)
       IN  /\ res' = Call("evaluate", expr, heap, state, out)
           /\ heap' = out.heap
    /\ steps' = steps + 1
    /\ UNCHANGED <<model, state>>

\* the client goes on with the result of the last call
Continue ==
    /\ res.op # "none"
    /\ res.output.ok
    /\ state' = res.output.val
    /\ res' = NoCall
    /\ UNCHANGED <<model, steps, heap>>

\* the formulas evaluated with the referent systems as objects: those that
\* call update(), those that fail, before or after an update, and a test
ObjectFormulas ==
    Quantified \cup Open
        \cup {Pa, negate(Pa), Quant("EXISTENTIAL", "x", Pred("U", <<Var("x")>>))}

NextObjects ==
    \/ \E k \in 0 .. NumWorlds, j \in 1 .. MaxIndex : EnumerateObjects(k, j)
    \/ \E v \in Variables, d \in Individuals : UpdateObjects(v, d)
    \/ \E f \in ObjectFormulas : EvaluateObjects(f)
    \/ Continue
    \/ Return

SpecObjects == InitObjects /\ [][NextObjects]_vars

(***************************************************************************)
(* Properties of the evaluator, read off the last call                     *)
(***************************************************************************)
\* C1: an existential update returns the union, by structural equality, of
\* the branch updates evaluate(f, update(s, v, d), M), so that possibilities
\* at one world that bind v to different individuals are all in the output;
\* on the example model, Exists x. P(x) applied to create(M) yields one
\* possibility for every world and individual in P there (three possibilities
\* with two worlds and two individuals).
C1_ExistentialIsUnionOfBranches ==
    (/\ res.op = "evaluate"
     /\ res.expr.kind = "quant"
     /\ res.expr.quantifier = "EXISTENTIAL"
     /\ res.output.ok)
    => LET branches == ScopeUpdates(model, res.expr, res.input)
       IN  /\ res.output.val = UNION {branches[i].val : i \in DOMAIN branches}
           /\ (model = ExampleModel /\ res.expr = ExPx /\ res.input = create(model))
                => Cardinality(res.output.val) = 1 + (NumWorlds - 1) * NumIndividuals

\* C2: a disjunction keeps a possibility p of s exactly when p is an element,
\* by structural equality, of evaluate(f, s, M) or of
\* evaluate(g, evaluate(NOT f, s, M), M); a possibility there with the world
\* of p and another assignment does not keep p.
C2_DisjunctionKeepsStructuralMembers ==
    (/\ res.op = "evaluate"
     /\ res.expr.kind = "binary"
     /\ res.expr.op = "DISJUNCTION"
     /\ res.output.ok)
    => LET s_L == Eval(model, res.expr.lhs, res.input).val
           s_R == Eval(model, res.expr.rhs,
                       Eval(model, negate(res.expr.lhs), res.input).val).val
       IN  res.output.val = {p \in res.input : p \in s_L \/ p \in s_R}

\* C7: a negation keeps a possibility p of s exactly when no possibility of
\* evaluate(f, s, M) extends p (same world, every peg of p mapped to the same
\* individual); on the example model, NOT Exists x. P(x) applied to create(M)
\* is the empty state.
C7_NegationKeepsNonSubsisting ==
    (/\ res.op = "evaluate"
     /\ res.expr.kind = "unary"
     /\ res.expr.op = "NEGATION"
     /\ res.output.ok)
    => LET hypothetical == Eval(model, res.expr.scope, res.input).val
           Extends(q, p) ==
               /\ q.world = p.world
               /\ \A peg \in DOMAIN p.assignment :
                     peg \in DOMAIN q.assignment /\ q.assignment[peg] = p.assignment[peg]
       IN  /\ res.output.val =
                 {p \in res.input : ~(\E q \in hypothetical : Extends(q, p))}
           /\ (model = ExampleModel /\ res.expr = negate(ExPx) /\ res.input = create(model))
                => res.output.val = {}

\* C7 witness: a negated existential has been evaluated and kept some
\* possibilities of the input while dropping others
C7_NegationSplitsState ==
    /\ res.op = "evaluate"
    /\ res.expr = negate(ExPx)
    /\ res.output.ok
    /\ res.output.val # {}
    /\ res.output.val # res.input

\* C8: the modals are tests.  POSSIBLY f yields the empty state when
\* evaluate(f, s, M) is empty and s otherwise; NECESSARILY f yields the empty
\* state when some possibility of s has no extension in evaluate(f, s, M) and
\* s otherwise; the result holds nothing that s does not hold.
C8_ModalsAreTests ==
    (/\ res.op = "evaluate"
     /\ res.expr.kind = "unary"
     /\ res.expr.op \in {"EPISTEMIC_POSSIBILITY", "EPISTEMIC_NECESSITY"}
     /\ res.output.ok)
    => LET hypothetical == Eval(model, res.expr.scope, res.input).val
           Extends(q, p) ==
               /\ q.world = p.world
               /\ \A peg \in DOMAIN p.assignment :
                     peg \in DOMAIN q.assignment /\ q.assignment[peg] = p.assignment[peg]
           Subsists(p) == \E q \in hypothetical : Extends(q, p)
       IN  /\ res.expr.op = "EPISTEMIC_POSSIBILITY"
                => res.output.val = IF hypothetical = {} THEN {} ELSE res.input
           /\ res.expr.op = "EPISTEMIC_NECESSITY"
                => res.output.val =
                     IF \E p \in res.input : ~Subsists(p) THEN {} ELSE res.input
           /\ res.output.val \subseteq res.input

\* C8 witness: a modal over an existential passed its test on a non-empty
\* state, whose possibilities come back without the peg of the prejacent
C8_ModalPassedOverExistential ==
    /\ res.op = "evaluate"
    /\ res.expr \in {Unary("EPISTEMIC_POSSIBILITY", ExPx), Unary("EPISTEMIC_NECESSITY", ExPx)}
    /\ res.output.ok
    /\ res.input # {}
    /\ res.output.val = res.input

\* C9: a conjunction is the update with the right conjunct of the update
\* with the left one, and succeeds exactly when both do; on create(M),
\* (Exists x. P(x)) AND Q(x) raises no error and every possibility of the
\* output binds x to an individual that is in P and in Q at its world.
C9_ConjunctionIsSequential ==
    (/\ res.op = "evaluate"
     /\ res.expr.kind = "binary"
     /\ res.expr.op = "CONJUNCTION")
    => LET first == Eval(model, res.expr.lhs, res.input)
           second == Eval(model, res.expr.rhs, first.val)
       IN  /\ res.output.ok <=> (first.ok /\ second.ok)
           /\ res.output.ok => res.output.val = second.val
           /\ (res.expr = Binary("CONJUNCTION", ExPx, Qx) /\ res.input = create(model))
                => /\ res.output.ok
                   /\ \A p \in res.output.val :
                         LET d == variableDenotation("x", p)
                         IN  /\ d.ok
                             /\ <<d.val>> \in model.predicates["P"][p.world]
                             /\ <<d.val>> \in model.predicates["Q"][p.world]

\* C9 witness: (Exists x. P(x)) AND Q(x) evaluated on create(M) with a
\* possibility left in the output
C9_AnaphoraResolved ==
    /\ res.op = "evaluate"
    /\ res.expr = Binary("CONJUNCTION", ExPx, Qx)
    /\ res.input = create(model)
    /\ res.output.ok
    /\ res.output.val # {}

\* C10 as stated: every formula without quantifiers and free variables,
\* modals included, is idempotent: evaluating it on its own update returns
\* that update.
C10_TestsAreIdempotent ==
    (/\ res.op = "evaluate"
     /\ res.expr \in Tests
     /\ res.output.ok)
    => Eval(model, res.expr, res.output.val) = res.output

\* C10 amended: a formula without quantifiers, free variables and epistemic
\* modals is idempotent.
C10_ModalFreeTestsAreIdempotent ==
    (/\ res.op = "evaluate"
     /\ res.expr \in ModalFreeTests
     /\ res.output.ok)
    => Eval(model, res.expr, res.output.val) = res.output

\* C10 witness: a modal-free test has dropped some possibilities and kept
\* others
C10_ModalFreeTestFiltered ==
    /\ res.op = "evaluate"
    /\ res.expr \in ModalFreeTests
    /\ res.output.ok
    /\ res.output.val # {}
    /\ res.output.val # res.input

(***************************************************************************)
(* Properties of the semantic relations, read off the last call            *)
(***************************************************************************)
\* C3: without evaluation errors, entails_G is true exactly when for every
\* subset of the worlds, of every cardinality from 0 to worldCardinality
\* included, the state of ignorant possibilities over it, updated with the
\* premises in turn, supports the conclusion.
C3_EntailsGExaminesEveryCardinality ==
    (res.op = "entails_G" /\ res.output.ok)
    => LET at(S) == entailsAt(model, res.other, res.expr,
                              {NewPossibility(NewReferentSystem, w) : w \in S})
       IN  (\A S \in SUBSET Worlds : at(S).ok)
             => res.output.val = (\A S \in SUBSET Worlds : at(S).val)

\* C4: without evaluation errors, equivalent is true exactly when for every
\* subset of the worlds the updates of the two formulas are similar, and it
\* is false when an examined subset yields updates that are not similar.
C4_EquivalentIffSimilarEverywhere ==
    (res.op = "equivalent" /\ res.output.ok)
    => LET sub(S) == {NewPossibility(NewReferentSystem, w) : w \in S}
           first(S) == evaluate(model, res.expr, sub(S))
           second(S) == evaluate(model, res.other, sub(S))
           alike(S) == LET r == similar(first(S).val, second(S).val)
                       IN  r.ok /\ r.val
           examined == {S \in SUBSET Worlds : Cardinality(S) \in Cardinalities(model)}
       IN  (\A S \in SUBSET Worlds : first(S).ok /\ second(S).ok)
             => /\ res.output.val = (\A S \in SUBSET Worlds : alike(S))
                /\ (\E S \in examined : ~alike(S)) => ~res.output.val

\* C5: consistent(expr, M) is true when the update with expr is non-empty on
\* some state over the worlds of the model, and false only when it is empty
\* on all of them.
C5_ConsistentIfSomeStateSurvives ==
    (res.op = "consistent" /\ res.output.ok)
    => LET survives(S) ==
               LET u == evaluate(model, res.expr,
                                 {NewPossibility(NewReferentSystem, w) : w \in S})
               IN  u.ok /\ u.val # {}
       IN  (\E S \in SUBSET Worlds : survives(S)) => res.output.val

\* C6: coherent(expr, M) is true when some non-empty state over the worlds of
\* the model supports expr, and false only when none does.
C6_CoherentIfSomeStateSupports ==
    (res.op = "coherent" /\ res.output.ok)
    => LET supported(S) ==
               LET r == supports(model, {NewPossibility(NewReferentSystem, w) : w \in S},
                                 res.expr)
               IN  S # {} /\ r.ok /\ r.val
       IN  (\E S \in SUBSET Worlds : supported(S)) => res.output.val


(***************************************************************************)
(* Properties of the core library, read off the last call                  *)
(***************************************************************************)
\* C11: extends(p2, p1) on possibilities is true exactly when p1 and p2 have
\* the same world and every peg that p1's assignment maps is mapped by p2 to
\* the same individual; it is false when p1 maps a peg that p2 does not map,
\* and pegs mapped only by p2 are unrestricted.
C11_ExtendsChecksEveryPegOfP1 ==
    (res.op = "extends")
    => LET p2 == res.other[1]
           p1 == res.other[2]
       IN  res.output.val
             <=> /\ p1.world = p2.world
                 /\ \A peg \in DOMAIN p1.assignment :
                       /\ peg \in DOMAIN p2.assignment
                       /\ p2.assignment[peg] = p1.assignment[peg]

\* C12: subsistence between information states is transitive: if s1 subsists
\* in s2 and s2 subsists in s3, then s1 subsists in s3, for any three states
\* with arbitrary worlds and peg assignments.
C12_SubsistenceIsTransitive ==
    (res.op = "subsistsIn")
    => ((res.output.val[1] /\ res.output.val[2]) => res.output.val[3])

\* C13: the set returned by evaluate does not depend on the order in which
\* the individuals of the domain are enumerated: an existential update
\* computed with the individuals visited in descending order is the set
\* computed with the ascending order of std::views::iota.
C13_OutputIndependentOfEnumerationOrder ==
    (/\ res.op = "evaluate"
     /\ res.expr.kind = "quant"
     /\ res.expr.quantifier = "EXISTENTIAL"
     /\ res.output.ok)
    => LET branches == ScopeUpdates(model, res.expr, res.input)
           n == model.domainCardinality
           descending == [i \in 1 .. n |-> branches[n + 1 - i].val]
       IN  res.output.val = MergeVariants({}, descending, 1)

\* C15: evaluating a formula on the empty information state returns the
\* empty information state, for every model and every formula built with
\* the accepted operators and quantifiers, including formulas with unbound
\* variables and with terms or predicates the model does not interpret.
C15_EmptyStateStaysEmpty ==
    (/\ res.op = "evaluate"
     /\ res.input = {}
     /\ res.expr \notin Invalid)
    => res.output = Ok({})

\* a predication with an uninterpreted predicate was evaluated on the empty
\* state and returned it
C15_UninterpretedOnEmptyState ==
    /\ res.op = "evaluate"
    /\ res.input = {}
    /\ res.expr = Ua
    /\ res.output = Ok({})

\* C16 (as stated): for every model and state, evaluating a formula that
\* contains a predicate the model does not interpret returns an error, never
\* a state, and the message names the evaluated formula first and then every
\* subformula enclosing the atomic formula, outermost to innermost, down to
\* that atomic formula.
C16_UninterpretedPredicateAlwaysFails ==
    (/\ res.op = "evaluate"
     /\ ~(PredicatesOf(res.expr) \subseteq DOMAIN model.predicates))
    => LET trace == res.output.err.trace
       IN  /\ ~res.output.ok
           /\ Len(trace) >= 1
           /\ trace[1] = res.expr
           /\ \A i \in 1 .. (Len(trace) - 1) :
                 trace[i + 1] \in ImmediateSubformulas(trace[i])
           /\ trace[Len(trace)].kind = "pred"
           /\ trace[Len(trace)].predicate \notin DOMAIN model.predicates

\* C16 (amended): a formula with an uninterpreted predicate returns an
\* error whenever the predication is applied to a possibility, which is
\* always so when the state is not empty and the predication is the first
\* atomic formula the evaluator reaches; and whenever evaluation fails on an
\* uninterpreted predicate, the message names the evaluated formula first
\* and then every subformula enclosing the atomic formula, outermost to
\* innermost, down to that atomic formula.
C16_FailureNamesEnclosingFormulas ==
    (/\ res.op = "evaluate"
     /\ res.expr \notin Invalid)
    => LET trace == res.output.err.trace
           atom == FirstAtom(res.expr)
       IN  /\ (/\ res.input # {}
               /\ atom.kind = "pred"
               /\ atom.predicate \notin DOMAIN model.predicates)
              => (~res.output.ok /\ res.output.err.cause = "Predicate not interpreted")
           /\ (~res.output.ok /\ res.output.err.cause = "Predicate not interpreted")
              => /\ Len(trace) >= 1
                 /\ trace[1] = res.expr
                 /\ \A i \in 1 .. (Len(trace) - 1) :
                       trace[i + 1] \in ImmediateSubformulas(trace[i])
                 /\ trace[Len(trace)].kind = "pred"
                 /\ trace[Len(trace)].predicate = res.output.err.what
                 /\ trace[Len(trace)].predicate \notin DOMAIN model.predicates

\* the right disjunct of P(a) OR U(a) failed on the worlds without P(a):
\* the message names the disjunction and then U(a)
C16_FailureInsideDisjunction ==
    /\ res.op = "evaluate"
    /\ res.expr = Binary("DISJUNCTION", Pa, Ua)
    /\ ~res.output.ok
    /\ res.output.err.trace = <<Binary("DISJUNCTION", Pa, Ua), Ua>>

\* C17: when a predication or an identity that names a variable with no peg
\* in the referent system of some possibility is evaluated on a state with at
\* least one possibility, the evaluation returns an error: the denotation
\* failure at one possibility aborts the whole evaluation and no partially
\* filtered state is returned.
C17_UnboundVariableAborts ==
    (/\ res.op = "evaluate"
     /\ res.expr.kind \in {"pred", "ident"}
     /\ LET terms == IF res.expr.kind = "pred"
                     THEN {res.expr.arguments[i] : i \in DOMAIN res.expr.arguments}
                     ELSE {res.expr.lhs, res.expr.rhs}
        IN  \E p \in res.input, t \in terms :
               /\ t.type = "VARIABLE"
               /\ t.literal \notin DOMAIN p.referentSystem.variablePegAssociation)
    => /\ ~res.output.ok
       /\ res.output.val = {}
       /\ res.output.err.trace = <<res.expr>>

\* P(x) met a state of several possibilities in which x has no peg
C17_UnboundVariableMet ==
    /\ res.op = "evaluate"
    /\ res.expr = Px
    /\ Cardinality(res.input) > 1
    /\ \A p \in res.input : "x" \notin DOMAIN p.referentSystem.variablePegAssociation
    /\ ~res.output.ok
    /\ res.output.err.cause = "Referent system does not contain variable"

\* the three messages of the handlers for a value outside the enumerations
InvalidCauses ==
    {"Invalid unary operator", "Invalid operator for binary formula", "Invalid quantifier"}

\* C18 (as stated): for every model and state, evaluating an expression
\* that contains a node whose operator or quantifier is outside the accepted
\* enumerations returns an "Invalid ..." error message, never a state.
C18_InvalidNodeGivesInvalidError ==
    (/\ res.op = "evaluate"
     /\ res.expr \in Invalid)
    => /\ ~res.output.ok
       /\ res.output.err.cause \in InvalidCauses

\* C18 (amended): evaluating such an expression returns an error, never a
\* state.  The error is the "Invalid ..." message of the node when every
\* subformula the evaluator visits before the node succeeds, and always for
\* an invalid quantifier at the root, whose scope is not visited; when the
\* first atomic formula fails (an unbound variable on the left of a
\* biconditional), that failure is returned instead, wrapped by the
\* enclosing formulas.
C18_InvalidNodeGivesError ==
    (/\ res.op = "evaluate"
     /\ res.expr \in Invalid)
    => LET first(outcome) ==
               /\ outcome.ok => res.output.err.cause \in InvalidCauses
               /\ (~outcome.ok /\ res.expr.kind # "quant")
                  => res.output.err.cause = outcome.err.cause
       IN  /\ ~res.output.ok
           /\ res.output.val = {}
           /\ Len(res.output.err.trace) >= 1
           /\ res.output.err.trace[1] = res.expr
           /\ res.expr.kind = "quant"
              => (/\ res.output.err.cause = "Invalid quantifier"
                  /\ res.output.err.trace = <<res.expr>>)
           /\ first(Eval(model, FirstAtom(res.expr), res.input))

\* a biconditional under a negation was evaluated on a state with several
\* possibilities: the message names the negation, then the biconditional
C18_BiconditionalMet ==
    /\ res.op = "evaluate"
    /\ res.expr = negate(Binary("BICONDITIONAL", Pa, Qa))
    /\ Cardinality(res.input) > 1
    /\ ~res.output.ok
    /\ res.output.err.cause = "Invalid operator for binary formula"
    /\ res.output.err.trace = <<res.expr, Binary("BICONDITIONAL", Pa, Qa)>>

\* C20: quantifier duality: for every model, every state reachable from
\* create(M) and every formula f whose terms and predicates are interpreted
\* and bound (so that the universal update succeeds), the update with
\* NOT Exists v. NOT f succeeds and is similar to the update with Forall v. f.
C20_QuantifierDuality ==
    (/\ res.op = "evaluate"
     /\ res.expr.kind = "quant"
     /\ res.expr.quantifier = "UNIVERSAL"
     /\ res.output.ok)
    => LET dual(outcome) ==
               /\ outcome.ok
               /\ similar(outcome.val, res.output.val) = Ok(TRUE)
       IN  dual(Eval(model,
                     negate(Quant("EXISTENTIAL", res.expr.variable, negate(res.expr.scope))),
                     res.input))

\* a universal update kept some possibilities of a state and removed others
C20_UniversalSplitsState ==
    /\ res.op = "evaluate"
    /\ res.expr.kind = "quant"
    /\ res.expr.quantifier = "UNIVERSAL"
    /\ res.output.ok
    /\ res.output.val # {}
    /\ res.output.val # res.input

(***************************************************************************)
(* Properties of the semantic relations: evaluation errors                 *)
(***************************************************************************)
\* what the body of a relation's loop returns for one enumerated state
RelationOutcome(m, call, s) ==
    CASE call.op = "consistent" -> consistentIn(m, call.expr, s)
      [] call.op = "coherent" -> is_not_empty_or_supports_expression(m, call.expr, s)
      [] call.op = "entails_G" -> entailsAt(m, call.other, call.expr, s)
      [] call.op = "entails_C" -> entailsCAt(m, call.other, call.expr, s)
      [] call.op = "equivalent" -> dissimilar_updates(m, call.expr, call.other, s)

\* some evaluate call that the relation makes for the state s returns an
\* error: the calls are those of the relation's code, each on the state the
\* code hands to it
EvaluateFails(m, call, s) ==
    CASE call.op \in {"consistent", "coherent", "supports", "consistentIn"} ->
            ~Eval(m, call.expr, s).ok
      [] call.op = "equivalent" ->
            ~Eval(m, call.expr, s).ok \/ ~Eval(m, call.other, s).ok
      [] call.op \in {"entails_G", "entails_0"} ->
            LET updated == sequentiallyUpdate(m, s, call.other, 1)
            IN  ~updated.ok \/ ~Eval(m, call.expr, updated.val).ok
      [] call.op = "entails_C" ->
            LET supported(k) == Eval(m, call.other[k], s).ok
                                /\ subsistsInState(s, Eval(m, call.other[k], s).val)
                n == Len(call.other)
            IN  \/ \E k \in 1 .. n :
                      /\ \A h \in 1 .. (k - 1) : supported(h)
                      /\ ~Eval(m, call.other[k], s).ok
                \/ /\ \A h \in 1 .. n : supported(h)
                   /\ ~Eval(m, call.expr, s).ok

\* the call reaches the j-th state of cardinality i: the loops over the
\* earlier cardinalities went on, and no earlier state of this cardinality
\* ended the inner loop (std::any_of ends at the first true, the entailment
\* loops end at the first false)
CallReaches(m, call, i, j) ==
    LET states(c) == generateSubStates(m.worldCardinality - 1, c)
        o(c, k) == RelationOutcome(m, call, states(c)[k])
        stop == call.op \in {"consistent", "coherent", "equivalent"}
        runs(c, k) == \A h \in 1 .. (k - 1) : o(c, h).ok /\ o(c, h).val # stop
        found(c) == \E k \in 1 .. Len(states(c)) :
                       runs(c, k) /\ o(c, k).ok /\ o(c, k).val = stop
        goes_on(c) == IF call.op \in {"consistent", "coherent"} THEN found(c)
                      ELSE runs(c, Len(states(c)) + 1)
    IN  /\ \A c \in 0 .. (i - 1) : goes_on(c)
        /\ runs(i, j)

\* C19: an evaluation error is never turned into a truth value: whenever an
\* evaluate call made by consistent, supports, coherent, entails_0,
\* entails_G, entails_C or equivalent returns an error, the relation returns
\* an error, not true or false.
C19_RelationsPropagateErrors ==
    /\ (/\ res.op \in {"supports", "consistentIn"}
        /\ EvaluateFails(model, res, res.input))
       => ~res.output.ok
    /\ (/\ res.op = "entails_0"
        /\ EvaluateFails(model, res, create(model)))
       => ~res.output.ok
    /\ (res.op \in {"consistent", "coherent", "entails_G", "entails_C", "equivalent"})
       => \A i \in Cardinalities(model) :
             \A j \in 1 .. Len(generateSubStates(model.worldCardinality - 1, i)) :
                (/\ CallReaches(model, res, i, j)
                 /\ EvaluateFails(model, res,
                                  generateSubStates(model.worldCardinality - 1, i)[j]))
                => ~res.output.ok

\* entails_G passed the empty state and then met a state on which the
\* conclusion Q(x) has no denotation
C19_EntailsGMetFailingState ==
    /\ res.op = "entails_G"
    /\ res.expr = Qx
    /\ res.other = <<Pa>>
    /\ Eval(model, Qx, {}).ok
    /\ CallReaches(model, res, 1, 1)
    /\ ~res.output.ok

(***************************************************************************)
(* Properties of the evaluator with the referent systems as objects        *)
(***************************************************************************)
\* C14: evaluate(expr, s, M) never observably changes its input: after the
\* call, whether it succeeded or failed, s holds the same possibilities with
\* the same worlds and assignments and every referent system a possibility
\* of s points at has the peg count and the bindings it had before; the
\* same holds for the state in hand while a hypothetical sub-evaluation
\* (the scope of a unary operator, the left-hand side of a binary one, the
\* scope of a quantifier on an update of the state) is computed.
C14_EvaluateLeavesInputUnchanged ==
    (res.op = "evaluate")
    => LET before == res.other
           kept(h1, h2, s) == \A p \in s : h2[p.referentSystem] = h1[p.referentSystem]
           sub(inner, h, s, in_hand) ==
               /\ kept(h, inner.heap, s)
               /\ kept(h, inner.heap, in_hand)
           variant(u) ==
               sub(EvalObjects(model, res.expr.scope, u.state, u.heap),
                   u.heap, res.input, u.state)
       IN  /\ state = res.input
           /\ kept(before, heap, state)
           /\ DerefState(heap, state) = DerefState(before, res.input)
           /\ res.expr.kind = "unary"
              => sub(EvalObjects(model, res.expr.scope, res.input, before),
                     before, res.input, res.input)
           /\ res.expr.kind = "binary"
              => sub(EvalObjects(model, res.expr.lhs, res.input, before),
                     before, res.input, res.input)
           /\ res.expr.kind = "quant"
              => \A d \in Individuals :
                    variant(updateObjects(before, res.input, res.expr.variable, d))

\* an existential update of a state with several possibilities, whose
\* referent system already binds a variable, allocated new referent systems
\* and succeeded
C14_ExistentialOnBoundState ==
    /\ res.op = "evaluate"
    /\ res.expr = ExPx
    /\ Cardinality(res.input) > 1
    /\ \A p \in res.input : res.other[p.referentSystem].pegs > 0
    /\ res.output.ok
    /\ res.output.val # {}
    /\ Len(res.output.heap) > Len(res.other)

(***************************************************************************)
(* Properties of the evaluator: algebra of the connectives                 *)
(***************************************************************************)
\* C21: De Morgan for tests: for every model, every state and all
\* quantifier-free formulas f and g, the update with NOT (f OR g) and the
\* update with (NOT f) AND (NOT g) succeed or fail together, and when they
\* succeed the two output states are similar.
C21_DeMorganForTests ==
    (/\ res.op = "evaluate"
     /\ res.expr.kind = "unary"
     /\ res.expr.op = "NEGATION"
     /\ res.expr.scope.kind = "binary"
     /\ res.expr.scope.op = "DISJUNCTION"
     /\ QuantifierFree(res.expr))
    => LET agree(outcome) ==
               /\ outcome.ok = res.output.ok
               /\ outcome.ok => similar(res.output.val, outcome.val) = Ok(TRUE)
       IN  agree(Eval(model,
                      Binary("CONJUNCTION", negate(res.expr.scope.lhs),
                             negate(res.expr.scope.rhs)),
                      res.input))

\* NOT (P(a) OR might Q(a)) kept some possibilities of a state and removed
\* others, although Q(a) holds somewhere in the state
C21_NegatedModalDisjunctionSplits ==
    /\ res.op = "evaluate"
    /\ res.expr = negate(Binary("DISJUNCTION", Pa, Unary("EPISTEMIC_POSSIBILITY", Qa)))
    /\ res.output.ok
    /\ res.output.val # {}
    /\ res.output.val # res.input
    /\ Eval(model, Qa, res.input).val # {}

(***************************************************************************)
(* Properties of update() with the referent systems as objects             *)
(***************************************************************************)
\* C22: update(s, v, d) returns a state with exactly one possibility per
\* possibility of s, each with the world and the assignment of its source
\* plus one newly created peg mapped to d; all output possibilities point at
\* one fresh referent system r* in which v is bound to that new peg (an
\* earlier binding of v is shadowed and its old peg keeps its individual),
\* which keeps the other bindings and whose peg count is the input's plus
\* one; the referent systems that existed before the call keep their peg
\* count and bindings.
C22_UpdateBuildsFreshReferentSystem ==
    (res.op = "update")
    => LET before == res.other
           after == res.output.heap
           s == res.input
           out == res.output.val
           v == res.expr.variable
           d == res.expr.individual
           source(q) == At(s, q.world)
           old(q) == before[source(q).referentSystem]
           fresh(q) == old(q).pegs + 1
       IN  /\ res.output.ok
           /\ WorldsOf(out) = WorldsOf(s)
           /\ Cardinality(out) = Cardinality(s)
           /\ \A q \in out :
                 /\ fresh(q) \notin DOMAIN source(q).assignment
                 /\ q.assignment = MapPut(source(q).assignment, fresh(q), d)
                 /\ \A peg \in DOMAIN source(q).assignment :
                       q.assignment[peg] = source(q).assignment[peg]
                 /\ q.referentSystem = Len(before) + 1
                 /\ q.referentSystem \notin {p.referentSystem : p \in s}
                 /\ after[q.referentSystem].pegs = old(q).pegs + 1
                 /\ after[q.referentSystem].variablePegAssociation
                       = MapPut(old(q).variablePegAssociation, v, fresh(q))
           /\ \A a \in 1 .. Len(before) : after[a] = before[a]
           /\ state = s

\* update rebinds a variable that the referent system of a state with
\* several possibilities already binds
C22_UpdateShadowsBinding ==
    /\ res.op = "update"
    /\ Cardinality(res.input) > 1
    /\ \A p \in res.input :
          res.expr.variable \in DOMAIN res.other[p.referentSystem].variablePegAssociation
    /\ Cardinality(res.output.val) > 1

(***************************************************************************)
(* Properties of the information states the client holds                   *)
(***************************************************************************)
\* C23: peg numbering: update binds the variable to a fresh peg equal to the
\* peg count before the introduction and then increments the peg count by
\* one, so in every state the pegs an assignment maps are exactly the
\* integers in [0, pegCount) and every peg stored in the bindings is strictly
\* less than pegCount.
C23_PegsAreDenseFromZero ==
    /\ (res.op = "update")
       => \A q \in res.output.val :
             LET p == At(res.input, q.world)
             IN  /\ q.referentSystem.variablePegAssociation[res.other[1]]
                       = p.referentSystem.pegs
                 /\ q.referentSystem.pegs = p.referentSystem.pegs + 1
    /\ \A p \in state :
          /\ DOMAIN p.assignment = 0 .. (p.referentSystem.pegs - 1)
          /\ \A v \in DOMAIN p.referentSystem.variablePegAssociation :
                p.referentSystem.variablePegAssociation[v] < p.referentSystem.pegs

\* C24: in every information state reachable from create(M) or from an
\* enumerated sub-state by update and evaluate calls, every possibility maps
\* the peg of every variable its referent system binds, so
\* variableDenotation(V, p) does not fail for a bound variable V: neither on
\* the states the client holds or receives, nor on the states the evaluator
\* builds on the way (no evaluation ends with std::out_of_range).
C24_BoundVariablesHaveDenotation ==
    /\ \A p \in state \cup res.output.val :
          \A v \in DOMAIN p.referentSystem.variablePegAssociation :
             /\ p.referentSystem.variablePegAssociation[v] \in DOMAIN p.assignment
             /\ variableDenotation(v, p).ok
    /\ ~res.output.ok => res.output.err.cause # "out_of_range"

\* an existential update introduced x in a state whose referent system bound
\* y already: the possibilities of the output bind both
C24_TwoVariablesBound ==
    /\ res.op = "evaluate"
    /\ res.expr = ExPx
    /\ res.output.ok
    /\ Cardinality(res.output.val) > 1
    /\ \A p \in res.output.val :
          DOMAIN p.referentSystem.variablePegAssociation = {"x", "y"}

\* C25: in every information state returned by create(M), by update or by
\* evaluate applied to a state whose possibilities share one referent
\* system, all possibilities point at one and the same referent system
\* object, not merely at structurally equal ones.
C25_StateSharesOneReferentSystem ==
    (/\ res.op \in {"update", "evaluate"}
     /\ res.output.ok
     /\ Cardinality({p.referentSystem : p \in res.input}) <= 1)
    => Cardinality({p.referentSystem : p \in res.output.val}) <= 1

(***************************************************************************)
(* Properties of the enumeration of sub-states                             *)
(***************************************************************************)
\* C26: generateSubStates(n, k) returns every k-element set of ignorant
\* possibilities (empty assignment, empty referent system) over the worlds
\* 0..n exactly once: C(n+1, k) pairwise distinct states of size k each when
\* 1 <= k <= n+1, exactly one state, the empty set, when k = 0, and no state
\* when k > n+1.  The order is that of the backtracking loop: it is a
\* function of n and k.
C26_SubStatesAreTheCombinations ==
    (res.op = "generateSubStates")
    => LET n == res.other[1]
           k == res.other[2]
           result == res.output.val
           ignorant == {NewPossibility(NewReferentSystem, w) : w \in 0 .. n}
           RECURSIVE choose(_, _)
           choose(a, b) == IF b = 0 THEN 1
                           ELSE IF a = 0 THEN 0
                           ELSE choose(a - 1, b - 1) + choose(a - 1, b)
       IN  /\ result = generateSubStates(n, k)
           /\ (k = 0) => result = <<{}>>
           /\ (k > n + 1) => result = <<>>
           /\ (1 <= k /\ k <= n + 1)
              => /\ Len(result) = choose(n + 1, k)
                 /\ \A i \in 1 .. Len(result) :
                       /\ result[i] \subseteq ignorant
                       /\ Cardinality(result[i]) = k
                       /\ Cardinality(WorldsOf(result[i])) = k
                 /\ \A i \in 1 .. Len(result), j \in 1 .. Len(result) :
                       (i # j) => result[i] # result[j]
                 /\ {result[i] : i \in 1 .. Len(result)}
                       = {s \in SUBSET ignorant : Cardinality(s) = k}

\* the states of two possibilities over four worlds were enumerated: six
C26_PairsOverFourWorlds ==
    /\ res.op = "generateSubStates"
    /\ res.other = <<3, 2>>
    /\ Len(res.output.val) = 6

\* C27: every information state built by create, update, generateSubStates
\* or evaluate holds at most one possibility per world, so its size never
\* exceeds worldCardinality; two possibilities with the same world are the
\* same set element whatever their assignments, and inserting a possibility
\* whose world is already present leaves the state unchanged: in the output
\* of an existential update the possibility at a world is the one of the
\* first branch update that has that world.
C27_OnePossibilityPerWorld ==
    LET one_per_world(s) ==
            /\ \A p \in s, q \in s : (p.world = q.world) => p = q
            /\ Cardinality(s) <= model.worldCardinality
        first_kept(branches) ==
            /\ WorldsOf(res.output.val)
                  = UNION {WorldsOf(branches[i].val) : i \in DOMAIN branches}
            /\ \A q \in res.output.val :
                  LET first == Min({i \in DOMAIN branches :
                                       q.world \in WorldsOf(branches[i].val)})
                  IN  q = At(branches[first].val, q.world)
    IN  /\ one_per_world(state)
        /\ one_per_world(res.output.val)
        /\ (/\ res.op = "evaluate"
            /\ res.expr.kind = "quant"
            /\ res.expr.quantifier = "EXISTENTIAL"
            /\ res.output.ok)
           => first_kept(ScopeUpdates(model, res.expr, res.input))

\* an existential update met, in a later branch, a possibility at a world
\* the output already held with another assignment
C27_LaterBranchAtSameWorld ==
    /\ res.op = "evaluate"
    /\ res.expr = ExPx
    /\ res.output.ok
    /\ LET branches == ScopeUpdates(model, res.expr, res.input)
       IN  \E w \in WorldsOf(branches[1].val) \cap WorldsOf(branches[2].val) :
              /\ At(branches[1].val, w) # At(branches[2].val, w)
              /\ At(res.output.val, w) = At(branches[1].val, w)

\* C28: updates only refine information: for every model, every state s
\* reachable from create(M) and every formula f on which evaluation
\* succeeds, extends(evaluate(f, s, M), s) holds: every possibility of the
\* output has the world of some possibility of s and maps every peg that
\* possibility maps to the same individual; hence the worlds of the output
\* are among the worlds of s.
C28_UpdatesOnlyRefine ==
    (/\ res.op = "evaluate"
     /\ res.output.ok)
    => /\ extendsState(res.output.val, res.input)
       /\ \A q \in res.output.val :
             \E p \in res.input :
                /\ p.world = q.world
                /\ DOMAIN p.assignment \subseteq DOMAIN q.assignment
                /\ \A peg \in DOMAIN p.assignment : q.assignment[peg] = p.assignment[peg]
       /\ WorldsOf(res.output.val) \subseteq WorldsOf(res.input)

\* a conjunction with an existential rebinds x in a state that binds x
\* already, keeps some worlds and removes others
C28_RebindingRefines ==
    /\ res.op = "evaluate"
    /\ res.expr = Binary("CONJUNCTION", ExPx, Qx)
    /\ res.output.ok
    /\ res.output.val # {}
    /\ WorldsOf(res.output.val) # WorldsOf(res.input)
    /\ \A p \in res.input : "x" \in DOMAIN p.referentSystem.variablePegAssociation

(***************************************************************************)
(* Properties of the semantic relations: entailment                        *)
(***************************************************************************)
\* C29: general entailment implies entailment at the ignorant state: for
\* every model with at least one world and all premises and conclusion on
\* which evaluation succeeds, if entails_G(premises, conclusion, M) returns
\* true then entails_0(premises, conclusion, M) returns true, the ignorant
\* state create(M) being among the states entails_G examines.
C29_GeneralEntailmentImpliesIgnorant ==
    (/\ res.op = "entails_G"
     /\ model.worldCardinality >= 1
     /\ res.output.ok
     /\ res.output.val)
    => LET holds(at_ignorant) == at_ignorant.ok => at_ignorant.val
       IN  holds(entails_0(model, res.other, res.expr))

(***************************************************************************)
(* Properties of the evaluator: donkey anaphora                            *)
(***************************************************************************)
\* C30: donkey equivalence: for every model and every state s that is
\* create(M) or a subset of it, evaluate((Exists x. P(x)) -> Q(x), s, M)
\* returns the same set of possibilities as
\* evaluate(Forall x. (P(x) -> Q(x)), s, M): the conditional keeps a
\* possibility only if every individual that satisfies P at its world also
\* satisfies Q there.
C30_DonkeyEquivalence ==
    (/\ res.op = "evaluate"
     /\ res.expr = Binary("CONDITIONAL", ExPx, Qx)
     /\ res.input \subseteq create(model)
     /\ res.output.ok)
    => LET same(universal) ==
               /\ universal.ok
               /\ universal.val = res.output.val
       IN  /\ same(Eval(model,
                        Quant("UNIVERSAL", "x", Binary("CONDITIONAL", Px, Qx)),
                        res.input))
           /\ \A p \in res.output.val :
                 \A d \in Individuals :
                    (<<d>> \in model.predicates["P"][p.world])
                    => (<<d>> \in model.predicates["Q"][p.world])

=============================================================================
